---------------------------- MODULE Spec2Model ----------------------------
(***************************************************************************)
(* Model of the Digital Twin migration pipeline                            *)
(* (src/migrate_data_to_rag.py) and of the id handling of the retrieval    *)
(* scripts (src/test_rag_functionality.py, src/debug_rag.py).              *)
(*                                                                         *)
(* Python strings are modelled as sequences of one-character strings, so   *)
(* that formatting, prefix stripping, splitting and date parsing are       *)
(* computed the way the code computes them.  The en-dash and the em-dash   *)
(* are single characters of the source; they are written "ndash" and       *)
(* "mdash" here.                                                           *)
(***************************************************************************)
EXTENDS Integers, Sequences, FiniteSets, TLC

(***************************************************************************)
(* String primitives (str.lower, in, replace, split, strip, startswith).   *)
(***************************************************************************)
UpperChars ==
  <<"A","B","C","D","E","F","G","H","I","J","K","L","M",
    "N","O","P","Q","R","S","T","U","V","W","X","Y","Z">>

LowerChars ==
  <<"a","b","c","d","e","f","g","h","i","j","k","l","m",
    "n","o","p","q","r","s","t","u","v","w","x","y","z">>

Digits == <<"0","1","2","3","4","5","6","7","8","9">>

IsDigit(c) == \E i \in 1..10 : Digits[i] = c

DigitVal(c) == (CHOOSE i \in 1..10 : Digits[i] = c) - 1

IsSpace(c) == c = " "

LowerChar(c) ==
  IF \E i \in 1..26 : UpperChars[i] = c
  THEN LowerChars[CHOOSE i \in 1..26 : UpperChars[i] = c]
  ELSE c

\* str.lower()
Lower(s) == [i \in 1..Len(s) |-> LowerChar(s[i])]

\* s[p:p+n] compared with sub
MatchAt(s, p, sub) ==
  /\ p >= 1
  /\ p + Len(sub) - 1 <= Len(s)
  /\ SubSeq(s, p, p + Len(sub) - 1) = sub

\* sub in s
Contains(s, sub) == \E p \in 1..(Len(s) + 1) : MatchAt(s, p, sub)

\* s.startswith(prefix)
StartsWith(s, prefix) == MatchAt(s, 1, prefix)

\* s.replace(old, new) for a one-character old
ReplaceChar(s, old, new) ==
  [i \in 1..Len(s) |-> IF s[i] = old THEN new ELSE s[i]]

\* s.split(sep): non-overlapping occurrences, left to right
RECURSIVE Split(_, _)
Split(s, sep) ==
  IF Contains(s, sep)
  THEN LET p == CHOOSE q \in 1..Len(s) :
                  /\ MatchAt(s, q, sep)
                  /\ \A r \in 1..(q - 1) : ~MatchAt(s, r, sep)
       IN  <<SubSeq(s, 1, p - 1)>> \o Split(SubSeq(s, p + Len(sep), Len(s)), sep)
  ELSE <<s>>

\* s.strip()
RECURSIVE Strip(_)
Strip(s) ==
  IF s = <<>> THEN s
  ELSE IF IsSpace(s[1]) THEN Strip(Tail(s))
  ELSE IF IsSpace(s[Len(s)]) THEN Strip(SubSeq(s, 1, Len(s) - 1))
  ELSE s

(***************************************************************************)
(* datetime.strptime for the six formats of parse_date.  A format is a     *)
(* sequence of directives and literal characters.  The result is           *)
(* [ok |-> TRUE, year, month] or [ok |-> FALSE] (ValueError).              *)
(***************************************************************************)
MonthNames ==
  << <<"j","a","n","u","a","r","y">>, <<"f","e","b","r","u","a","r","y">>,
     <<"m","a","r","c","h">>, <<"a","p","r","i","l">>, <<"m","a","y">>,
     <<"j","u","n","e">>, <<"j","u","l","y">>, <<"a","u","g","u","s","t">>,
     <<"s","e","p","t","e","m","b","e","r">>, <<"o","c","t","o","b","e","r">>,
     <<"n","o","v","e","m","b","e","r">>, <<"d","e","c","e","m","b","e","r">> >>

MonthAbbrs == [i \in 1..12 |-> SubSeq(MonthNames[i], 1, 3)]

NoMatch == [ok |-> FALSE]

\* %Y : exactly four digits
MatchYear(s, p) ==
  IF p + 3 <= Len(s) /\ \A i \in p..(p + 3) : IsDigit(s[i])
  THEN [ok |-> TRUE, next |-> p + 4,
        val |-> 1000 * DigitVal(s[p]) + 100 * DigitVal(s[p + 1])
                + 10 * DigitVal(s[p + 2]) + DigitVal(s[p + 3])]
  ELSE NoMatch

\* %m : 1[0-2] | 0[1-9] | [1-9]
MatchMonth(s, p) ==
  IF p > Len(s) THEN NoMatch
  ELSE IF s[p] = "1" /\ p + 1 <= Len(s) /\ s[p + 1] \in {"0", "1", "2"}
  THEN [ok |-> TRUE, next |-> p + 2, val |-> 10 + DigitVal(s[p + 1])]
  ELSE IF s[p] = "0" /\ p + 1 <= Len(s) /\ IsDigit(s[p + 1]) /\ s[p + 1] # "0"
  THEN [ok |-> TRUE, next |-> p + 2, val |-> DigitVal(s[p + 1])]
  ELSE IF IsDigit(s[p]) /\ s[p] # "0"
  THEN [ok |-> TRUE, next |-> p + 1, val |-> DigitVal(s[p])]
  ELSE NoMatch

\* %B / %b : a month name of the table, letter case ignored
MatchName(names, s, p) ==
  IF \E i \in 1..12 : MatchAt(Lower(s), p, names[i])
  THEN LET i == CHOOSE j \in 1..12 : MatchAt(Lower(s), p, names[j])
       IN  [ok |-> TRUE, next |-> p + Len(names[i]), val |-> i]
  ELSE NoMatch

\* a blank of the format matches one or more blanks of the input
RECURSIVE SkipSpaces(_, _)
SkipSpaces(s, p) ==
  IF p <= Len(s) /\ IsSpace(s[p]) THEN SkipSpaces(s, p + 1) ELSE p

MatchLiteral(c, s, p) ==
  IF IsSpace(c)
  THEN IF p <= Len(s) /\ IsSpace(s[p])
       THEN [ok |-> TRUE, next |-> SkipSpaces(s, p), val |-> 0]
       ELSE NoMatch
  ELSE IF p <= Len(s) /\ s[p] = c
       THEN [ok |-> TRUE, next |-> p + 1, val |-> 0]
       ELSE NoMatch

MatchDirective(d, s, p) ==
  CASE d = "%Y" -> MatchYear(s, p)
    [] d = "%m" -> MatchMonth(s, p)
    [] d = "%B" -> MatchName(MonthNames, s, p)
    [] d = "%b" -> MatchName(MonthAbbrs, s, p)
    [] OTHER    -> MatchLiteral(d, s, p)

\* fields default to year 1900, month 1; the whole input must be consumed
\* and datetime rejects year 0
RECURSIVE StrptimeFrom(_, _, _, _, _, _)
StrptimeFrom(s, fmt, k, p, year, month) ==
  IF k > Len(fmt)
  THEN IF p = Len(s) + 1 /\ year >= 1
       THEN [ok |-> TRUE, year |-> year, month |-> month]
       ELSE NoMatch
  ELSE LET r == MatchDirective(fmt[k], s, p)
       IN  IF ~r.ok THEN NoMatch
           ELSE StrptimeFrom(s, fmt, k + 1, r.next,
                             IF fmt[k] = "%Y" THEN r.val ELSE year,
                             IF fmt[k] \in {"%m", "%B", "%b"} THEN r.val ELSE month)

strptime(s, fmt) == StrptimeFrom(s, fmt, 1, 1, 1900, 1)


(***************************************************************************)
(* parse_date and parse_duration.  A datetime is [year, month] (the day is *)
(* always 1 for these formats); None is NoDate, which no parse produces    *)
(* because datetime has no year 0.  A call returns its value together with *)
(* raised, TRUE when an exception leaves the function.                     *)
(***************************************************************************)
NoDate == [year |-> 0, month |-> 0]

\* Python None (JSON null) where a string is expected; it differs from every
\* string because strings are made of one-character elements.
None == <<"None">>

\* not s
Falsy(s) == s = <<>> \/ s = None

formats ==
  << <<"%Y", "-", "%m">>, <<"%Y", "/", "%m">>, <<"%m", "/", "%Y">>,
     <<"%Y">>, <<"%B", " ", "%Y">>, <<"%b", " ", "%Y">> >>

\* for fmt in formats: try strptime, except ValueError: continue
RECURSIVE TryFormats(_, _)
TryFormats(date_str, k) ==
  IF k > Len(formats) THEN NoMatch
  ELSE IF strptime(date_str, formats[k]).ok THEN strptime(date_str, formats[k])
  ELSE TryFormats(date_str, k + 1)

\* variant: the ValueError of the last format is not caught
parse_date_raises(date_str) ==
  IF Falsy(date_str)
  THEN [raised |-> FALSE, value |-> NoDate]
  ELSE LET r == TryFormats(date_str, 1)
       IN  IF r.ok
           THEN [raised |-> FALSE, value |-> [year |-> r.year, month |-> r.month]]
           ELSE [raised |-> TRUE, value |-> NoDate]

parse_date(date_str) ==
  IF Falsy(date_str)
  THEN [raised |-> FALSE, value |-> NoDate]
  ELSE LET r == TryFormats(date_str, 1)
       IN  IF r.ok
           THEN [raised |-> FALSE, value |-> [year |-> r.year, month |-> r.month]]
           ELSE [raised |-> FALSE, value |-> NoDate]

S_present == <<"p","r","e","s","e","n","t">>
S_current == <<"c","u","r","r","e","n","t">>
S_sep     == <<" ", "-", " ">>

DurationNone ==
  [raised |-> FALSE, start_date |-> NoDate, end_date |-> NoDate, is_current |-> FALSE]

\* variant: split('-') instead of split(' - ')
parse_duration_split_on_hyphen(duration_str) ==
  IF Falsy(duration_str) THEN DurationNone
  ELSE
    LET is_current == \/ Contains(Lower(duration_str), S_present)
                      \/ Contains(Lower(duration_str), S_current)
        parts == Split(ReplaceChar(ReplaceChar(duration_str, "ndash", "-"),
                                   "mdash", "-"), <<"-">>)
    IN  IF Len(parts) >= 2
        THEN LET start == parse_date(Strip(parts[1]))
                 end   == IF is_current
                          THEN [raised |-> FALSE, value |-> NoDate]
                          ELSE parse_date(Strip(parts[2]))
             IN  IF start.raised \/ end.raised
                 THEN DurationNone
                 ELSE [raised |-> FALSE, start_date |-> start.value,
                       end_date |-> end.value, is_current |-> is_current]
        ELSE DurationNone

parse_duration(duration_str) ==
  IF Falsy(duration_str) THEN DurationNone
  ELSE
    LET is_current == \/ Contains(Lower(duration_str), S_present)
                      \/ Contains(Lower(duration_str), S_current)
        parts == Split(ReplaceChar(ReplaceChar(duration_str, "ndash", "-"),
                                   "mdash", "-"), S_sep)
    IN  IF Len(parts) >= 2
        THEN LET start == parse_date(Strip(parts[1]))
                 end   == IF is_current
                          THEN [raised |-> FALSE, value |-> NoDate]
                          ELSE parse_date(Strip(parts[2]))
             IN  IF start.raised \/ end.raised
                 THEN DurationNone      \* except Exception: return None, None, False
                 ELSE [raised |-> FALSE, start_date |-> start.value,
                       end_date |-> end.value, is_current |-> is_current]
        ELSE DurationNone

\* insert_education: graduation_date = None; if the key is present,
\* parse_date(edu['graduation_date']) (no try/except of its own)
graduation_date(edu) ==
  IF "graduation_date" \in DOMAIN edu
  THEN parse_date(edu.graduation_date)
  ELSE [raised |-> FALSE, value |-> NoDate]


(***************************************************************************)
(* Values shared by the pipeline: None, dict access, str(int), constants.  *)
(***************************************************************************)
\* d.get(k, default)
Get(d, k, default) == IF k \in DOMAIN d THEN d[k] ELSE default

\* {**f, **g}
Merge(f, g) ==
  [k \in (DOMAIN f) \cup (DOMAIN g) |-> IF k \in DOMAIN g THEN g[k] ELSE f[k]]

\* str(n) for n >= 0
RECURSIVE IntToStr(_)
IntToStr(n) ==
  IF n < 10 THEN <<Digits[n + 1]>>
  ELSE IntToStr(n \div 10) \o <<Digits[(n % 10) + 1]>>

S_upstash == <<"u","p","s","t","a","s","h","-">>
S_chunk == <<"c","h","u","n","k","-">>
T_personal_info == <<"p","e","r","s","o","n","a","l","_","i","n","f","o">>
T_experience == <<"e","x","p","e","r","i","e","n","c","e">>
T_skills == <<"s","k","i","l","l","s">>
T_project == <<"p","r","o","j","e","c","t">>
T_education == <<"e","d","u","c","a","t","i","o","n">>
W_profile == <<"p","r","o","f","i","l","e">>
W_summary == <<"s","u","m","m","a","r","y">>
W_elevator_pitch == <<"e","l","e","v","a","t","o","r"," ","p","i","t","c","h">>
W_professional == <<"p","r","o","f","e","s","s","i","o","n","a","l">>
W_work == <<"w","o","r","k">>
W_expertise == <<"e","x","p","e","r","t","i","s","e">>
W_soft_skills == <<"s","o","f","t"," ","s","k","i","l","l","s">>
W_interpersonal == <<"i","n","t","e","r","p","e","r","s","o","n","a","l">>
W_portfolio == <<"p","o","r","t","f","o","l","i","o">>
W_degree == <<"d","e","g","r","e","e">>
W_university == <<"u","n","i","v","e","r","s","i","t","y">>
S_Technical == <<"T","e","c","h","n","i","c","a","l">>
S_Soft_Skills == <<"S","o","f","t"," ","S","k","i","l","l","s">>
S_completed == <<"c","o","m","p","l","e","t","e","d">>

(***************************************************************************)
(* The profile documents the runs are given (data/mytwin.json).  A section *)
(* or a field that a document does not declare is absent from the record.  *)
(***************************************************************************)
Doc1 ==
  [personalInfo |-> [name |-> <<"A","d","a">>, title |-> <<"E","n","g">>,
                     contact |-> [email |-> "ada@example.com"]],
   experience |-> <<
     [company |-> <<"A","c","m","e">>,
      duration |-> <<"2","0","2","1","-","0","3"," ","-"," ","P","r","e","s","e","n","t">>,
      keywords |-> << <<"A","I">> >>],
     [company |-> <<"I","n","i","t","e","c","h">>,
      duration |-> <<"2","0","1","9","-","0","1"," ","-"," ","2","0","2","0","-","0","6">>],
     [company |-> <<"G","l","o","b","e","x">>,
      duration |-> <<"M","a","r"," ","2","0","1","7"," ","ndash"," ","1","2","/","2","0","1","8">>],
     [company |-> <<"H","o","o","l","i">>,
      duration |-> <<"s","o","o","n">>] >>,
   skills |-> [
     technical |-> <<
       [category |-> <<"C","l","o","u","d">>,
        skills |-> << [name |-> <<"A","W","S">>], [name |-> <<"K","8","s">>] >>],
       [category |-> <<"D","a","t","a">>,
        skills |-> << [name |-> <<"S","Q","L">>] >>] >>,
     soft_skills |-> << [skill |-> <<"T","a","l","k">>], [skill |-> <<"L","e","a","d">>] >>],
   projects |-> <<
     [name |-> <<"R","A","G">>, status |-> S_completed,
      timeline |-> <<"2","0","2","0"," ","-"," ","2","0","2","1","-","1","3">>],
     [name |-> <<"B","o","t">>,
      status |-> <<"i","n"," ","p","r","o","g","r","e","s","s">>,
      timeline |-> <<"2","0","2","2","/","0","1"," ","mdash"," ","c","u","r","r","e","n","t">>],
     [name |-> <<"C","L","I">>] >>,
   education |-> <<
     [institution |-> <<"M","I","T">>, graduation_date |-> <<"J","u","n","e"," ","2","0","1","5">>] >>]

\* the same person later: fewer entries, and no education section at all
Doc2 ==
  [personalInfo |-> [name |-> <<"A","d","a"," ","L">>, title |-> <<"A","r","c","h">>,
                     contact |-> [email |-> "ada@example.com"]],
   experience |-> <<
     [company |-> <<"A","c","m","e">>,
      duration |-> <<"2","0","2","1","-","0","3"," ","-"," ","2","0","2","3","-","1","0">>] >>,
   skills |-> [
     technical |-> <<
       [category |-> <<"C","l","o","u","d">>,
        skills |-> << [name |-> <<"A","W","S">>] >>] >>],
   projects |-> << [name |-> <<"R","A","G">>, status |-> S_completed] >>]

\* another person
Doc3 ==
  [personalInfo |-> [name |-> <<"B","o","b">>, title |-> <<"O","p","s">>,
                     contact |-> [email |-> "bob@example.com"]],
   experience |-> <<
     [company |-> <<"I","n","i","t","e","c","h">>,
      duration |-> <<"2","0","1","8"," ","-"," ","C","u","r","r","e","n","t">>] >>,
   skills |-> [soft_skills |-> << [skill |-> <<"P","l","a","n">>] >>],
   projects |-> << >>,
   education |-> <<
     [institution |-> <<"E","T","H">>, graduation_date |-> <<"s","o","o","n">>],
     [institution |-> <<"M","I","T">>] >>]

Docs == {Doc1, Doc2, Doc3}

\* the duration, timeline and graduation_date texts of the documents, each
\* parsed once
DocDurations ==
  UNION {{Get(D.experience[i], "duration", <<>>) : i \in 1..Len(D.experience)} :
           D \in {d \in Docs : "experience" \in DOMAIN d}}
  \cup UNION {{D.projects[i].timeline :
                 i \in {j \in 1..Len(D.projects) : "timeline" \in DOMAIN D.projects[j]}} :
                D \in {d \in Docs : "projects" \in DOMAIN d}}

DocEducation ==
  UNION {{D.education[i] : i \in 1..Len(D.education)} :
           D \in {d \in Docs : "education" \in DOMAIN d}}

ParsedDurations == {[arg |-> s, ret |-> parse_duration(s)] : s \in DocDurations}

ParsedGraduationDates == {[arg |-> e, ret |-> graduation_date(e)] : e \in DocEducation}

\* self.parse_duration(duration_str) as insert_experiences and
\* insert_projects call it
parsed_duration(duration_str) ==
  (CHOOSE m \in ParsedDurations : m.arg = duration_str).ret

\* the graduation date as insert_education computes it
parsed_graduation_date(edu) ==
  (CHOOSE m \in ParsedGraduationDates : m.arg = edu).ret

required_sections == {"personalInfo", "experience", "skills", "projects", "education"}


(***************************************************************************)
(* create_content_chunks.  The rendered text of a chunk is the sequence of *)
(* the field values its template interpolates, in template order.          *)
(***************************************************************************)
PersonalInfoChunk(personal_info, professional_id) ==
  [content |-> <<Get(personal_info, "name", <<>>), Get(personal_info, "title", <<>>)>>,
   metadata |-> [professional_id |-> professional_id,
                 content_type |-> T_personal_info,
                 name |-> Get(personal_info, "name", None),
                 title |-> Get(personal_info, "title", None)],
   chunk_type |-> T_personal_info,
   importance |-> "high",
   keywords |-> <<W_profile, W_summary, W_elevator_pitch, W_professional>>,
   date_context |-> None]

ExperienceChunk_first_four(exp, i, professional_id) ==
  [content |-> <<Get(exp, "company", <<>>), Get(exp, "duration", <<>>)>>,
   metadata |-> [professional_id |-> professional_id,
                 content_type |-> T_experience,
                 company |-> Get(exp, "company", None),
                 duration |-> Get(exp, "duration", None),
                 index |-> i],
   chunk_type |-> T_experience,
   importance |-> IF i <= 3 THEN "high" ELSE "medium",
   keywords |-> Get(exp, "keywords", <<>>)
                \o <<T_experience, W_work, Lower(Get(exp, "company", <<>>))>>,
   date_context |-> Get(exp, "duration", None)]

\* i is the zero-based position of enumerate()
ExperienceChunk(exp, i, professional_id) ==
  [content |-> <<Get(exp, "company", <<>>), Get(exp, "duration", <<>>)>>,
   metadata |-> [professional_id |-> professional_id,
                 content_type |-> T_experience,
                 company |-> Get(exp, "company", None),
                 duration |-> Get(exp, "duration", None),
                 index |-> i],
   chunk_type |-> T_experience,
   importance |-> IF i < 3 THEN "high" ELSE "medium",
   keywords |-> Get(exp, "keywords", <<>>)
                \o <<T_experience, W_work, Lower(Get(exp, "company", <<>>))>>,
   date_context |-> Get(exp, "duration", None)]

SkillNames(skills_in_category, key) ==
  [j \in 1..Len(skills_in_category) |-> Get(skills_in_category[j], key, <<>>)]

LowerAll(names) == [j \in 1..Len(names) |-> Lower(names[j])]

TechnicalSkillsChunk(category_group, professional_id) ==
  LET category == Get(category_group, "category", S_Technical)
      skills_in_category == Get(category_group, "skills", <<>>)
  IN  [content |-> <<category>> \o SkillNames(skills_in_category, "name"),
       metadata |-> [professional_id |-> professional_id,
                     content_type |-> T_skills,
                     category |-> category,
                     skill_count |-> Len(skills_in_category)],
       chunk_type |-> T_skills,
       importance |-> "high",
       keywords |-> <<T_skills, Lower(category), W_expertise>>
                    \o LowerAll(SkillNames(skills_in_category, "name")),
       date_context |-> None]

SoftSkillsChunk(soft_skills, professional_id) ==
  [content |-> <<S_Soft_Skills>> \o SkillNames(soft_skills, "skill"),
   metadata |-> [professional_id |-> professional_id,
                 content_type |-> T_skills,
                 category |-> S_Soft_Skills,
                 skill_count |-> Len(soft_skills)],
   chunk_type |-> T_skills,
   importance |-> "medium",
   keywords |-> <<T_skills, W_soft_skills, W_interpersonal>>
                \o LowerAll(SkillNames(soft_skills, "skill")),
   date_context |-> None]

ProjectChunk(project, i, professional_id) ==
  [content |-> <<Get(project, "name", <<>>), Get(project, "status", <<>>)>>,
   metadata |-> [professional_id |-> professional_id,
                 content_type |-> T_project,
                 project_name |-> Get(project, "name", None),
                 status |-> Get(project, "status", None),
                 index |-> i],
   chunk_type |-> T_project,
   importance |-> IF Get(project, "status", None) = S_completed
                  THEN "high" ELSE "medium",
   keywords |-> <<T_project, W_portfolio>> \o Get(project, "technologies", <<>>)
                \o <<Lower(Get(project, "name", <<>>))>>,
   date_context |-> Get(project, "timeline", None)]

EducationChunk(edu, i, professional_id) ==
  [content |-> <<Get(edu, "institution", <<>>), Get(edu, "graduation_date", <<>>)>>,
   metadata |-> [professional_id |-> professional_id,
                 content_type |-> T_education,
                 institution |-> Get(edu, "institution", None),
                 index |-> i],
   chunk_type |-> T_education,
   importance |-> "medium",
   keywords |-> <<T_education, W_degree, W_university,
                  Lower(Get(edu, "institution", <<>>)),
                  Lower(Get(edu, "field_of_study", <<>>))>>,
   date_context |-> Get(edu, "graduation_date", None)]

create_content_chunks_soft_skills_first(json_data, professional_id) ==
  LET personal_info == Get(json_data, "personalInfo", << >>)
      experience    == Get(json_data, "experience", <<>>)
      skills_data   == Get(json_data, "skills", << >>)
      technical     == Get(skills_data, "technical", <<>>)
      projects_list == Get(json_data, "projects", <<>>)
      education_list == Get(json_data, "education", <<>>)
  IN  (IF DOMAIN personal_info # {}
       THEN <<PersonalInfoChunk(personal_info, professional_id)>> ELSE <<>>)
      \o [i \in 1..Len(experience) |->
            ExperienceChunk(experience[i], i - 1, professional_id)]
      \o (IF "soft_skills" \in DOMAIN skills_data
          THEN <<SoftSkillsChunk(skills_data.soft_skills, professional_id)>> ELSE <<>>)
      \o [i \in 1..Len(technical) |->
            TechnicalSkillsChunk(technical[i], professional_id)]
      \o [i \in 1..Len(projects_list) |->
            ProjectChunk(projects_list[i], i - 1, professional_id)]
      \o [i \in 1..Len(education_list) |->
            EducationChunk(education_list[i], i - 1, professional_id)]

create_content_chunks(json_data, professional_id) ==
  LET personal_info == Get(json_data, "personalInfo", << >>)
      experience    == Get(json_data, "experience", <<>>)
      skills_data   == Get(json_data, "skills", << >>)
      technical     == Get(skills_data, "technical", <<>>)
      projects_list == Get(json_data, "projects", <<>>)
      education_list == Get(json_data, "education", <<>>)
  IN  (IF DOMAIN personal_info # {}
       THEN <<PersonalInfoChunk(personal_info, professional_id)>> ELSE <<>>)
      \o [i \in 1..Len(experience) |->
            ExperienceChunk(experience[i], i - 1, professional_id)]
      \o [i \in 1..Len(technical) |->
            TechnicalSkillsChunk(technical[i], professional_id)]
      \o (IF "soft_skills" \in DOMAIN skills_data
          THEN <<SoftSkillsChunk(skills_data.soft_skills, professional_id)>> ELSE <<>>)
      \o [i \in 1..Len(projects_list) |->
            ProjectChunk(projects_list[i], i - 1, professional_id)]
      \o [i \in 1..Len(education_list) |->
            EducationChunk(education_list[i], i - 1, professional_id)]


(***************************************************************************)
(* Relational Mapper.  A table is the sequence of its rows in insertion    *)
(* order.  The id column is modelled for the tables whose id the code      *)
(* reads back (professionals, json_content, content_chunks).               *)
(***************************************************************************)
\* DELETE FROM <table> WHERE professional_id = %s
DeleteOwned(table, professional_id) ==
  SelectSeq(table, LAMBDA r : r.professional_id # professional_id)

Owned(table, professional_id) ==
  SelectSeq(table, LAMBDA r : r.professional_id = professional_id)

\* contact.get('email') of a contact without email: None, stored as NULL
NoEmail == ""

ExistingProfessional_none(table, email) == {}

\* SELECT id FROM professionals WHERE email = %s ; fetchone()
\* (a NULL email compares equal to no row)
ExistingProfessional(table, email) ==
  {i \in 1..Len(table) : email # NoEmail /\ table[i].email = email}

\* variant: the row the SELECT fetched is ignored
professional_write_always_insert(table, next_id, personal_info, existing) ==
  [table |-> Append(table, [id |-> next_id,
                            email |-> Get(Get(personal_info, "contact", << >>),
                                          "email", NoEmail),
                            name |-> Get(personal_info, "name", None),
                            title |-> Get(personal_info, "title", None)]),
   next_id |-> next_id + 1,
   professional_id |-> next_id,
   inserted |-> 1]

\* the statement that follows the SELECT: UPDATE ... WHERE id of the row the
\* SELECT fetched, or INSERT ... RETURNING id when it fetched none; existing
\* is what cursor.fetchone() returned, table is the table at this statement
professional_write(table, next_id, personal_info, existing) ==
  LET contact  == Get(personal_info, "contact", << >>)
      email    == Get(contact, "email", NoEmail)
  IN  IF existing # {}
      THEN LET i == CHOOSE j \in existing : \A k \in existing : j <= k
           IN  [table |-> [table EXCEPT ![i].name = Get(personal_info, "name", None),
                                        ![i].title = Get(personal_info, "title", None)],
                next_id |-> next_id,
                professional_id |-> table[i].id,
                inserted |-> 0]
      ELSE [table |-> Append(table, [id |-> next_id, email |-> email,
                                     name |-> Get(personal_info, "name", None),
                                     title |-> Get(personal_info, "title", None)]),
            next_id |-> next_id + 1,
            professional_id |-> next_id,
            inserted |-> 1]

\* insert_professional_data run without interruption: the SELECT and the
\* statement that follows it see the same table
insert_professional_data(table, next_id, personal_info) ==
  LET contact  == Get(personal_info, "contact", << >>)
      email    == Get(contact, "email", NoEmail)
  IN  professional_write(table, next_id, personal_info,
                         ExistingProfessional(table, email))

ExperienceRow(exp, professional_id) ==
  LET d == parsed_duration(Get(exp, "duration", <<>>))
  IN  [professional_id |-> professional_id,
       company |-> Get(exp, "company", None),
       start_date |-> d.start_date, end_date |-> d.end_date,
       is_current |-> d.is_current]

\* variant: the DELETE is missing
insert_experiences_without_delete(table, experience, professional_id) ==
  table
  \o [i \in 1..Len(experience) |-> ExperienceRow(experience[i], professional_id)]

\* insert_experiences: DELETE the professional's rows, INSERT the list
insert_experiences(table, experience, professional_id) ==
  DeleteOwned(table, professional_id)
  \o [i \in 1..Len(experience) |-> ExperienceRow(experience[i], professional_id)]

\* all_skills of insert_skills: technical groups, then soft skills
TechnicalSkillRows(category_group, professional_id) ==
  LET group_skills == Get(category_group, "skills", <<>>)
  IN  [j \in 1..Len(group_skills) |->
         [professional_id |-> professional_id,
          category |-> Get(category_group, "category", S_Technical),
          name |-> Get(group_skills[j], "name", None),
          is_technical |-> TRUE]]

RECURSIVE Flatten(_)
Flatten(seqs) == IF seqs = <<>> THEN <<>> ELSE Head(seqs) \o Flatten(Tail(seqs))

all_skills(skills_doc, professional_id) ==
  LET technical   == Get(skills_doc, "technical", <<>>)
      soft_skills == Get(skills_doc, "soft_skills", <<>>)
  IN  Flatten([g \in 1..Len(technical) |->
                 TechnicalSkillRows(technical[g], professional_id)])
      \o [j \in 1..Len(soft_skills) |->
            [professional_id |-> professional_id,
             category |-> S_Soft_Skills,
             name |-> Get(soft_skills[j], "skill", Get(soft_skills[j], "name", <<>>)),
             is_technical |-> FALSE]]

insert_skills(table, skills_doc, professional_id) ==
  DeleteOwned(table, professional_id) \o all_skills(skills_doc, professional_id)

ProjectRow(project, professional_id) ==
  LET d == IF "timeline" \in DOMAIN project
           THEN parsed_duration(project.timeline) ELSE DurationNone
  IN  [professional_id |-> professional_id,
       name |-> Get(project, "name", None),
       status |-> Get(project, "status", S_completed),
       start_date |-> d.start_date, end_date |-> d.end_date]

insert_projects(table, projects_list, professional_id) ==
  DeleteOwned(table, professional_id)
  \o [i \in 1..Len(projects_list) |-> ProjectRow(projects_list[i], professional_id)]

EducationRow(edu, professional_id) ==
  [professional_id |-> professional_id,
   institution |-> Get(edu, "institution", None),
   graduation_date |-> parsed_graduation_date(edu).value]

insert_education(table, education_list, professional_id) ==
  DeleteOwned(table, professional_id)
  \o [i \in 1..Len(education_list) |-> EducationRow(education_list[i], professional_id)]

\* a parse_date exception inside the loop of insert_education leaves the
\* function through its except clause
EducationRaises(education_list) ==
  \E i \in 1..Len(education_list) : parsed_graduation_date(education_list[i]).raised

\* the top-level keys of a profile document in sorted() order
Alphabetical == <<"education", "experience", "personalInfo", "projects", "skills">>

\* orders in which the dict that json.load returns can hold the keys of a
\* document: the order of the file, which the model takes to be the order of
\* required_sections, that order reversed, or rotated by two
dict_orders(d) ==
  LET written == <<"personalInfo", "experience", "skills", "projects", "education">>
      present(order) == SelectSeq(order, LAMBDA k : k \in DOMAIN d)
  IN  {present(written),
       present([i \in 1..5 |-> written[6 - i]]),
       present([i \in 1..5 |-> written[((i + 1) % 5) + 1]])}

\* sorted(keys)
sorted(key_order) ==
  SelectSeq(Alphabetical, LAMBDA k : \E i \in 1..Len(key_order) : key_order[i] = k)

json_dumps_ignoring_sort_keys(d, key_order, sort_keys) ==
  [i \in 1..Len(key_order) |-> <<key_order[i], d[key_order[i]]>>]

\* json.dumps(d, sort_keys=...): the members of the object one after the
\* other, in the order of the dict or in sorted key order
json_dumps(d, key_order, sort_keys) ==
  LET keys == IF sort_keys THEN sorted(key_order) ELSE key_order
  IN  [i \in 1..Len(keys) |-> <<keys[i], d[keys[i]]>>]

\* sha256(json.dumps(json_data, sort_keys=True)).hexdigest(); the digest is
\* modelled by the text it is taken of, so equal hashes mean equal texts
content_hash(json_data, key_order) == json_dumps(json_data, key_order, TRUE)

\* insert_json_content: one row per (professional, 'v1'), overwritten
insert_json_content(table, next_id, json_data, key_order, professional_id) ==
  LET existing == {i \in 1..Len(table) :
                     table[i].professional_id = professional_id /\ table[i].version = "v1"}
  IN  IF existing # {}
      THEN LET i == CHOOSE j \in existing : \A k \in existing : j <= k
           IN  [table |-> [table EXCEPT ![i].content = json_data,
                                        ![i].content_hash =
                                           content_hash(json_data, key_order)],
                next_id |-> next_id, inserted |-> 0]
      ELSE [table |-> Append(table, [id |-> next_id,
                                     professional_id |-> professional_id,
                                     version |-> "v1",
                                     content |-> json_data,
                                     content_hash |-> content_hash(json_data, key_order)]),
            next_id |-> next_id + 1, inserted |-> 1]


(***************************************************************************)
(* Chunk Persister (insert_content_chunks).                                *)
(***************************************************************************)
\* f"chunk-{professional_id}-{chunk.chunk_type}-{i}"
textual_chunk_id(professional_id, chunk_type, i) ==
  S_chunk \o IntToStr(professional_id) \o <<"-">> \o chunk_type \o <<"-">> \o IntToStr(i)

\* the row of the INSERT; db_chunk_id is the id the INSERT returns
ChunkRow(chunk, professional_id, i, db_chunk_id) ==
  LET chunk_id == textual_chunk_id(professional_id, chunk.chunk_type, i)
  IN  [id |-> db_chunk_id,
       professional_id |-> professional_id,
       chunk_id |-> chunk_id,
       type |-> chunk.chunk_type,
       content |-> chunk.content,
       category |-> Get(chunk.metadata, "content_type", chunk.chunk_type),
       tags |-> chunk.keywords,
       importance |-> chunk.importance,
       date_range |-> chunk.date_context,
       vector_id |-> S_upstash \o chunk_id]

\* variant: the metadata vector id is formatted without the "upstash-" prefix
AnnotateChunk_bare_vector_id(chunk, professional_id, i, db_chunk_id) ==
  LET chunk_id == textual_chunk_id(professional_id, chunk.chunk_type, i)
  IN  [chunk EXCEPT !.metadata =
         Merge(chunk.metadata, [chunk_id |-> db_chunk_id, vector_id |-> chunk_id])]

\* variant: the loop position is stored instead of the returned row id
AnnotateChunk_position(chunk, professional_id, i, db_chunk_id) ==
  LET chunk_id == textual_chunk_id(professional_id, chunk.chunk_type, i)
  IN  [chunk EXCEPT !.metadata =
         Merge(chunk.metadata, [chunk_id |-> i,
                                vector_id |-> S_upstash \o chunk_id])]

\* chunk.metadata['chunk_id'] = db_chunk_id ; chunk.metadata['vector_id'] = ...
AnnotateChunk(chunk, professional_id, i, db_chunk_id) ==
  LET chunk_id == textual_chunk_id(professional_id, chunk.chunk_type, i)
  IN  [chunk EXCEPT !.metadata =
         Merge(chunk.metadata, [chunk_id |-> db_chunk_id,
                                vector_id |-> S_upstash \o chunk_id])]

\* the first n chunks of the loop: rows appended (no DELETE), ids taken from
\* the table's sequence, chunks annotated in place
insert_content_chunks(table, next_id, chunk_list, professional_id, n) ==
  [table |-> table \o [k \in 1..n |->
                         ChunkRow(chunk_list[k], professional_id, k - 1, next_id + k - 1)],
   next_id |-> next_id + n,
   chunks |-> [k \in 1..Len(chunk_list) |->
                 IF k <= n
                 THEN AnnotateChunk(chunk_list[k], professional_id, k - 1, next_id + k - 1)
                 ELSE chunk_list[k]]]

(***************************************************************************)
(* Vector Upserter (generate_vector_embeddings, _upsert_vector_batch).     *)
(***************************************************************************)
batch_size == 10
max_retries == 3
retry_delay == 1

\* Vector(id=..., data=..., metadata={**chunk.metadata, ...})
MakeVector_fixed_importance(chunk, now) ==
  [id |-> chunk.metadata.vector_id,
   data |-> chunk.content,
   metadata |-> Merge(chunk.metadata,
                      [chunk_type |-> chunk.chunk_type,
                       importance |-> "medium",
                       keywords |-> chunk.keywords,
                       date_context |-> chunk.date_context,
                       created_at |-> now])]

MakeVector(chunk, now) ==
  [id |-> chunk.metadata.vector_id,
   data |-> chunk.content,
   metadata |-> Merge(chunk.metadata,
                      [chunk_type |-> chunk.chunk_type,
                       importance |-> chunk.importance,
                       keywords |-> chunk.keywords,
                       date_context |-> chunk.date_context,
                       created_at |-> now])]

RECURSIVE BatchLoop_flush_above_size(_, _, _, _)
BatchLoop_flush_above_size(vector_list, k, vectors_to_upsert, submitted) ==
  IF k > Len(vector_list)
  THEN IF vectors_to_upsert # <<>>
       THEN Append(submitted, vectors_to_upsert) ELSE submitted
  ELSE LET pending == Append(vectors_to_upsert, vector_list[k])
       IN  IF Len(pending) > batch_size
           THEN BatchLoop_flush_above_size(vector_list, k + 1, <<>>,
                                           Append(submitted, pending))
           ELSE BatchLoop_flush_above_size(vector_list, k + 1, pending, submitted)

\* the batches the loop hands to _upsert_vector_batch when none fails:
\* flush when len(vectors_to_upsert) >= batch_size, then the remainder
RECURSIVE BatchLoop(_, _, _, _)
BatchLoop(vector_list, k, vectors_to_upsert, submitted) ==
  IF k > Len(vector_list)
  THEN IF vectors_to_upsert # <<>>
       THEN Append(submitted, vectors_to_upsert) ELSE submitted
  ELSE LET pending == Append(vectors_to_upsert, vector_list[k])
       IN  IF Len(pending) >= batch_size
           THEN BatchLoop(vector_list, k + 1, <<>>, Append(submitted, pending))
           ELSE BatchLoop(vector_list, k + 1, pending, submitted)

Batches(chunk_list, now) ==
  BatchLoop([k \in 1..Len(chunk_list) |-> MakeVector(chunk_list[k], now)], 1, <<>>, <<>>)

\* variant: no return after a successful upsert
upsert_attempt_no_return(attempt, accepted, batch_len) ==
  IF accepted
  THEN [next |-> "retry", embedded |-> batch_len, sleep |-> 0]
  ELSE IF attempt < max_retries - 1
  THEN [next |-> "retry", embedded |-> 0, sleep |-> retry_delay * (attempt + 1)]
  ELSE [next |-> "raise", embedded |-> 0, sleep |-> 0]

\* variant: the last failure is logged and not re-raised
upsert_attempt_skip_batch(attempt, accepted, batch_len) ==
  IF accepted
  THEN [next |-> "return", embedded |-> batch_len, sleep |-> 0]
  ELSE IF attempt < max_retries - 1
  THEN [next |-> "retry", embedded |-> 0, sleep |-> retry_delay * (attempt + 1)]
  ELSE [next |-> "return", embedded |-> 0, sleep |-> 0]

\* variant: the delay does not grow with the attempt number
upsert_attempt_constant_delay(attempt, accepted, batch_len) ==
  IF accepted
  THEN [next |-> "return", embedded |-> batch_len, sleep |-> 0]
  ELSE IF attempt < max_retries - 1
  THEN [next |-> "retry", embedded |-> 0, sleep |-> retry_delay]
  ELSE [next |-> "raise", embedded |-> 0, sleep |-> 0]

\* variant: the test for the last attempt is off by one
upsert_attempt_never_last(attempt, accepted, batch_len) ==
  IF accepted
  THEN [next |-> "return", embedded |-> batch_len, sleep |-> 0]
  ELSE IF attempt < max_retries
  THEN [next |-> "retry", embedded |-> 0, sleep |-> retry_delay * (attempt + 1)]
  ELSE [next |-> "raise", embedded |-> 0, sleep |-> 0]

\* one iteration of the retry loop of _upsert_vector_batch: attempt is the
\* zero-based loop variable, accepted tells whether index.upsert returned
upsert_attempt(attempt, accepted, batch_len) ==
  IF accepted
  THEN [next |-> "return", embedded |-> batch_len, sleep |-> 0]
  ELSE IF attempt < max_retries - 1
  THEN [next |-> "retry", embedded |-> 0, sleep |-> retry_delay * (attempt + 1)]
  ELSE [next |-> "raise", embedded |-> 0, sleep |-> 0]

\* index.upsert(vectors=batch): a record replaces the one with the same id
IndexUpsert(index, batch) ==
  LET ids == {batch[k].id : k \in 1..Len(batch)}
  IN  [id \in (DOMAIN index) \cup ids |->
         IF id \in ids
         THEN LET k == CHOOSE j \in 1..Len(batch) :
                         /\ batch[j].id = id
                         /\ \A m \in 1..Len(batch) : batch[m].id = id => m <= j
              IN  [data |-> batch[k].data, metadata |-> batch[k].metadata]
         ELSE index[id]]

index_after_attempt_clearing(index, batch, accepted) ==
  IF accepted THEN IndexUpsert(index, batch) ELSE << >>

\* self.vector_index.upsert(vectors=batch) in _upsert_vector_batch: a call
\* that raises has written nothing, and nothing undoes the earlier calls
index_after_attempt(index, batch, accepted) ==
  IF accepted THEN IndexUpsert(index, batch) ELSE index

\* run_single_test: the key used to fetch the chunk's content
\* (vector_id[8:] when the id starts with 'upstash-')
retrieval_chunk_id(vector_id, metadata) ==
  IF StartsWith(vector_id, S_upstash)
  THEN SubSeq(vector_id, 9, Len(vector_id))
  ELSE Get(metadata, "chunk_id", <<"u","n","k","n","o","w","n">>)


(***************************************************************************)
(* Bounds of the model.                                                    *)
(***************************************************************************)
\* number of migration runs (process starts) in a behaviour
MaxRuns == 2
\* a failing stage fails after at most this many of its INSERTs succeeded
MaxFailPoint == 1

\* longest chunk list handed to the batch loop on its own
MaxChunks == 21

(***************************************************************************)
(* State.                                                                  *)
(***************************************************************************)
VARIABLES
  professionals, experiences, skills, projects, education,   \* relational tables
  json_content, content_chunks,
  serial,           \* next id of the id sequences of the tables
  vector_index,     \* the external index: vector id -> [data, metadata]
  pc,               \* stage the running migration is about to execute, or "idle"
  runs,             \* number of runs started
  file,             \* data/mytwin.json as the current run finds it
  json_data,        \* the loaded document
  professional_id, chunks, stats,
  batch_no, attempt,   \* position in the batch loop and in the retry loop
  trace,            \* the upsert attempts and sleeps of the current run
  exit_code,        \* exit status of the last run, -1 before the first
  postgres_conn,    \* "none", "open" or "closed"
  prev,             \* document, exit status and tables at the end of the previous run
  fault,            \* the external call that last failed in the current run, or "none"
  call              \* a single call of a parsing function and its result

vars ==
  <<professionals, experiences, skills, projects, education, json_content,
    content_chunks, serial, vector_index, pc, runs, file, json_data,
    professional_id, chunks, stats, batch_no, attempt, trace, exit_code,
    postgres_conn, prev, fault, call>>

tables == <<professionals, experiences, skills, projects, education,
            json_content, content_chunks, serial>>

run_locals == <<json_data, professional_id, chunks, batch_no, attempt, trace>>

\* MigrationStats()
NewStats ==
  [professionals_inserted |-> 0, experiences_inserted |-> 0, skills_inserted |-> 0,
   projects_inserted |-> 0, education_inserted |-> 0, json_content_inserted |-> 0,
   content_chunks_created |-> 0, vectors_embedded |-> 0, errors_encountered |-> 0]

Bump(st, field, n) == [st EXCEPT ![field] = @ + n]

Min(a, b) == IF a < b THEN a ELSE b

Files ==
  {[state |-> "missing", data |-> << >>], [state |-> "invalid", data |-> << >>]}
  \cup {[state |-> "ok", data |-> d] : d \in Docs}

NoCall == [fn |-> "none", state |-> "idle"]

\* empty stores, no run started
InitPipeline ==
  /\ professionals = <<>> /\ experiences = <<>> /\ skills = <<>>
  /\ projects = <<>> /\ education = <<>> /\ json_content = <<>>
  /\ content_chunks = <<>>
  /\ serial = [professionals |-> 1, json_content |-> 1, content_chunks |-> 1]
  /\ vector_index = << >>
  /\ pc = "idle" /\ runs = 0
  /\ file = [state |-> "missing", data |-> << >>]
  /\ json_data = << >> /\ professional_id = 0 /\ chunks = <<>>
  /\ stats = NewStats /\ batch_no = 0 /\ attempt = 0 /\ trace = <<>>
  /\ exit_code = -1 /\ postgres_conn = "none"
  /\ prev = [data |-> << >>, exit_code |-> -1, tables |-> <<>>]
  /\ fault = "none"

Init == InitPipeline /\ call = NoCall

(***************************************************************************)
(* main(): one action per stage.  A stage that raises leaves the with      *)
(* block: __exit__ closes the connection and counts the error, main logs   *)
(* it and calls sys.exit(1).                                               *)
(***************************************************************************)
rollback_missing(committed, uncommitted) == uncommitted

\* self.postgres_conn.rollback(): the table as the last commit left it, not as
\* the statements of the open transaction made it
rollback(committed, uncommitted) == committed

Abort_without_exit_status(st, kind) ==
  /\ fault' = kind
  /\ pc' = "idle"
  /\ exit_code' = 0
  /\ postgres_conn' = "closed"
  /\ stats' = Bump(st, "errors_encountered", 1)

\* __exit__ with an exception, then sys.exit(1); st is stats as the stage left
\* it, kind the external call whose failure raised the exception
Abort(st, kind) ==
  /\ fault' = kind
  /\ pc' = "idle"
  /\ exit_code' = 1
  /\ postgres_conn' = "closed"
  /\ stats' = Bump(st, "errors_encountered", 1)

\* process start: Path(json_file_path).exists(), DigitalTwinMigrator()
StartRun ==
  /\ pc = "idle"
  /\ runs < MaxRuns
  /\ \E f \in Files, configured \in BOOLEAN :
       /\ file' = f
       /\ IF f.state = "missing" \/ ~configured
          THEN pc' = "idle" /\ exit_code' = 1      \* sys.exit(1) / ValueError
          ELSE pc' = "connect" /\ exit_code' = -1
       /\ fault' = IF f.state = "missing" THEN "input"
                   ELSE IF ~configured THEN "config" ELSE "none"
  /\ runs' = runs + 1
  /\ prev' = [data |-> file.data, exit_code |-> exit_code,
              tables |-> <<professionals, experiences, skills, projects, education>>]
  /\ stats' = NewStats
  /\ postgres_conn' = "none"
  /\ json_data' = << >> /\ professional_id' = 0 /\ chunks' = <<>>
  /\ batch_no' = 0 /\ attempt' = 0 /\ trace' = <<>>
  /\ UNCHANGED <<tables, vector_index, call>>

\* __enter__ -> connect_databases; when it raises, __exit__ does not run
Connect ==
  /\ pc = "connect"
  /\ \E outcome \in {"ok", "postgres_down", "vector_down"} :
       /\ postgres_conn' = IF outcome = "postgres_down" THEN "none" ELSE "open"
       /\ IF outcome = "ok"
          THEN pc' = "load" /\ UNCHANGED exit_code
          ELSE pc' = "idle" /\ exit_code' = 1
       /\ fault' = IF outcome = "ok" THEN fault ELSE "connection"
  /\ UNCHANGED <<tables, vector_index, runs, file, run_locals, stats, prev, call>>

next_stage_projects_before_skills(stage) ==
  CASE stage = "load" -> "professional"
    [] stage = "professional" -> "experiences"
    [] stage = "experiences" -> "projects"
    [] stage = "projects" -> "skills"
    [] stage = "skills" -> "education"
    [] stage = "education" -> "json_content"
    [] stage = "json_content" -> "create_chunks"
    [] stage = "create_chunks" -> "insert_chunks"
    [] stage = "insert_chunks" -> "reset_index"
    [] stage = "reset_index" -> "upsert"

\* the statements of main's with block in program order: the stage that
\* follows a stage which returned
next_stage(stage) ==
  CASE stage = "load" -> "professional"
    [] stage = "professional" -> "experiences"
    [] stage = "experiences" -> "skills"
    [] stage = "skills" -> "projects"
    [] stage = "projects" -> "education"
    [] stage = "education" -> "json_content"
    [] stage = "json_content" -> "create_chunks"
    [] stage = "create_chunks" -> "insert_chunks"
    [] stage = "insert_chunks" -> "reset_index"
    [] stage = "reset_index" -> "upsert"

load_and_validate_json_with_default(f) ==
  [raised |-> FALSE, data |-> IF f.state = "ok" THEN f.data ELSE Doc3]

\* load_and_validate_json: open() or json.load() raises for a file that
\* cannot be read or is not JSON; missing sections are only logged
load_and_validate_json(f) ==
  [raised |-> f.state # "ok", data |-> f.data]

\* json_data = migrator.load_and_validate_json(json_file_path)
Load ==
  /\ pc = "load"
  /\ IF ~load_and_validate_json(file).raised
     THEN /\ json_data' = load_and_validate_json(file).data
          /\ pc' = next_stage(pc)
          /\ UNCHANGED <<exit_code, postgres_conn, stats, fault>>
     ELSE /\ Abort(stats, "input")
          /\ UNCHANGED json_data
  /\ UNCHANGED <<tables, vector_index, runs, file, professional_id, chunks,
                 batch_no, attempt, trace, prev, call>>


\* insert_professional_data; a failing statement rolls the transaction back
InsertProfessional ==
  /\ pc = "professional"
  /\ LET r == insert_professional_data(professionals, serial.professionals,
                                       json_data.personalInfo)
     IN  \/ /\ professionals' = r.table
            /\ serial' = [serial EXCEPT !.professionals = r.next_id]
            /\ professional_id' = r.professional_id
            /\ stats' = Bump(stats, "professionals_inserted", r.inserted)
            /\ pc' = next_stage(pc)
            /\ UNCHANGED <<exit_code, postgres_conn, fault>>
         \/ \E done \in 0..Min(1, MaxFailPoint) :
              /\ serial' = [serial EXCEPT !.professionals =
                              IF done = 1 THEN r.next_id ELSE @]
              /\ Abort(Bump(Bump(stats, "professionals_inserted",
                                 IF done = 1 THEN r.inserted ELSE 0),
                            "errors_encountered", 1), "write")
              /\ professionals' = rollback(professionals,
                                           IF done = 1 THEN r.table ELSE professionals)
              /\ UNCHANGED professional_id
  /\ UNCHANGED <<experiences, skills, projects, education, json_content,
                 content_chunks, vector_index, runs, file, json_data, chunks,
                 batch_no, attempt, trace, prev, call>>

\* number of INSERTs a stage issues, and whether its loop raises by itself
NumInserts_insert_experiences(experience, pid) == Len(experience)
NumInserts_insert_skills(skills_doc, pid) == Len(all_skills(skills_doc, pid))
NumInserts_insert_projects(projects_list, pid) == Len(projects_list)
NumInserts_insert_education(education_list, pid) == Len(education_list)
Raises_insert_experiences(experience) == FALSE
Raises_insert_skills(skills_doc) == FALSE
Raises_insert_projects(projects_list) == FALSE
Raises_insert_education(education_list) == EducationRaises(education_list)

has_section_always(doc, key) == TRUE

\* main: 'experience' in json_data, and likewise for the other sections
has_section(doc, key) == key \in DOMAIN doc

\* main: if 'experience' in json_data: migrator.insert_experiences(...)
InsertExperiences ==
  /\ pc = "experiences"
  /\ IF ~has_section(json_data, "experience")
     THEN /\ pc' = next_stage(pc)
          /\ UNCHANGED <<experiences, stats, exit_code, postgres_conn, fault>>
     ELSE IF "experience" \notin DOMAIN json_data
     THEN /\ Abort(stats, fault)        \* json_data['experience']: KeyError
          /\ UNCHANGED experiences
     ELSE LET n == NumInserts_insert_experiences(json_data.experience, professional_id)
          IN  \/ /\ ~Raises_insert_experiences(json_data.experience)
                 /\ experiences' = insert_experiences(experiences, json_data.experience, professional_id)
                 /\ stats' = Bump(stats, "experiences_inserted", n)
                 /\ pc' = next_stage(pc)
                 /\ UNCHANGED <<exit_code, postgres_conn, fault>>
              \/ \E done \in 0..Min(n, MaxFailPoint) :      \* rollback, re-raise
                   /\ (Raises_insert_experiences(json_data.experience) => done = 0)
                   /\ Abort(Bump(Bump(stats, "experiences_inserted", done),
                                 "errors_encountered", 1),
                            IF Raises_insert_experiences(json_data.experience) THEN fault ELSE "write")
                   /\ experiences' = rollback(experiences,
                        DeleteOwned(experiences, professional_id)
                        \o SubSeq(insert_experiences(<<>>, json_data.experience, professional_id), 1, done))
  /\ UNCHANGED <<professionals, skills, projects, education, json_content, content_chunks, serial,
                 vector_index, runs, file, run_locals, prev, call>>

\* main: if 'skills' in json_data: migrator.insert_skills(...)
InsertSkills ==
  /\ pc = "skills"
  /\ IF ~has_section(json_data, "skills")
     THEN /\ pc' = next_stage(pc)
          /\ UNCHANGED <<skills, stats, exit_code, postgres_conn, fault>>
     ELSE IF "skills" \notin DOMAIN json_data
     THEN /\ Abort(stats, fault)        \* json_data['skills']: KeyError
          /\ UNCHANGED skills
     ELSE LET n == NumInserts_insert_skills(json_data.skills, professional_id)
          IN  \/ /\ ~Raises_insert_skills(json_data.skills)
                 /\ skills' = insert_skills(skills, json_data.skills, professional_id)
                 /\ stats' = Bump(stats, "skills_inserted", n)
                 /\ pc' = next_stage(pc)
                 /\ UNCHANGED <<exit_code, postgres_conn, fault>>
              \/ \E done \in 0..Min(n, MaxFailPoint) :      \* rollback, re-raise
                   /\ (Raises_insert_skills(json_data.skills) => done = 0)
                   /\ Abort(Bump(Bump(stats, "skills_inserted", done),
                                 "errors_encountered", 1),
                            IF Raises_insert_skills(json_data.skills) THEN fault ELSE "write")
                   /\ skills' = rollback(skills,
                        DeleteOwned(skills, professional_id)
                        \o SubSeq(insert_skills(<<>>, json_data.skills, professional_id), 1, done))
  /\ UNCHANGED <<professionals, experiences, projects, education, json_content, content_chunks, serial,
                 vector_index, runs, file, run_locals, prev, call>>

\* main: if 'projects' in json_data: migrator.insert_projects(...)
InsertProjects ==
  /\ pc = "projects"
  /\ IF ~has_section(json_data, "projects")
     THEN /\ pc' = next_stage(pc)
          /\ UNCHANGED <<projects, stats, exit_code, postgres_conn, fault>>
     ELSE IF "projects" \notin DOMAIN json_data
     THEN /\ Abort(stats, fault)        \* json_data['projects']: KeyError
          /\ UNCHANGED projects
     ELSE LET n == NumInserts_insert_projects(json_data.projects, professional_id)
          IN  \/ /\ ~Raises_insert_projects(json_data.projects)
                 /\ projects' = insert_projects(projects, json_data.projects, professional_id)
                 /\ stats' = Bump(stats, "projects_inserted", n)
                 /\ pc' = next_stage(pc)
                 /\ UNCHANGED <<exit_code, postgres_conn, fault>>
              \/ \E done \in 0..Min(n, MaxFailPoint) :      \* rollback, re-raise
                   /\ (Raises_insert_projects(json_data.projects) => done = 0)
                   /\ Abort(Bump(Bump(stats, "projects_inserted", done),
                                 "errors_encountered", 1),
                            IF Raises_insert_projects(json_data.projects) THEN fault ELSE "write")
                   /\ projects' = rollback(projects,
                        DeleteOwned(projects, professional_id)
                        \o SubSeq(insert_projects(<<>>, json_data.projects, professional_id), 1, done))
  /\ UNCHANGED <<professionals, experiences, skills, education, json_content, content_chunks, serial,
                 vector_index, runs, file, run_locals, prev, call>>

\* main: if 'education' in json_data: migrator.insert_education(...)
InsertEducation ==
  /\ pc = "education"
  /\ IF ~has_section(json_data, "education")
     THEN /\ pc' = next_stage(pc)
          /\ UNCHANGED <<education, stats, exit_code, postgres_conn, fault>>
     ELSE IF "education" \notin DOMAIN json_data
     THEN /\ Abort(stats, fault)        \* json_data['education']: KeyError
          /\ UNCHANGED education
     ELSE LET n == NumInserts_insert_education(json_data.education, professional_id)
          IN  \/ /\ ~Raises_insert_education(json_data.education)
                 /\ education' = insert_education(education, json_data.education, professional_id)
                 /\ stats' = Bump(stats, "education_inserted", n)
                 /\ pc' = next_stage(pc)
                 /\ UNCHANGED <<exit_code, postgres_conn, fault>>
              \/ \E done \in 0..Min(n, MaxFailPoint) :      \* rollback, re-raise
                   /\ (Raises_insert_education(json_data.education) => done = 0)
                   /\ Abort(Bump(Bump(stats, "education_inserted", done),
                                 "errors_encountered", 1),
                            IF Raises_insert_education(json_data.education) THEN fault ELSE "write")
                   /\ education' = rollback(education,
                        DeleteOwned(education, professional_id)
                        \o SubSeq(insert_education(<<>>, json_data.education, professional_id), 1, done))
  /\ UNCHANGED <<professionals, experiences, skills, projects, json_content, content_chunks, serial,
                 vector_index, runs, file, run_locals, prev, call>>

\* insert_json_content; key_order is the order in which the loaded dict
\* holds the document's keys
InsertJsonContent ==
  /\ pc = "json_content"
  /\ \E key_order \in dict_orders(json_data) :
     LET r == insert_json_content(json_content, serial.json_content,
                                  json_data, key_order, professional_id)
     IN  \/ /\ json_content' = r.table
            /\ serial' = [serial EXCEPT !.json_content = r.next_id]
            /\ stats' = Bump(stats, "json_content_inserted", r.inserted)
            /\ pc' = next_stage(pc)
            /\ UNCHANGED <<exit_code, postgres_conn, fault>>
         \/ \E done \in 0..Min(1, MaxFailPoint) :
              /\ serial' = [serial EXCEPT !.json_content =
                              IF done = 1 THEN r.next_id ELSE @]
              /\ Abort(Bump(Bump(stats, "json_content_inserted",
                                 IF done = 1 THEN r.inserted ELSE 0),
                            "errors_encountered", 1), "write")
              /\ json_content' = rollback(json_content,
                                          IF done = 1 THEN r.table ELSE json_content)
  /\ UNCHANGED <<professionals, experiences, skills, projects, education,
                 content_chunks, vector_index, runs, file, run_locals, prev, call>>

\* chunks = migrator.create_content_chunks(json_data, professional_id)
CreateChunks ==
  /\ pc = "create_chunks"
  /\ chunks' = create_content_chunks(json_data, professional_id)
  /\ pc' = next_stage(pc)
  /\ UNCHANGED <<tables, vector_index, runs, file, json_data, professional_id,
                 stats, batch_no, attempt, trace, exit_code, postgres_conn,
                 prev, fault, call>>

\* insert_content_chunks: INSERT ... RETURNING id per chunk, one commit
InsertChunks ==
  /\ pc = "insert_chunks"
  /\ \/ LET r == insert_content_chunks(content_chunks, serial.content_chunks,
                                       chunks, professional_id, Len(chunks))
        IN  /\ content_chunks' = r.table
            /\ serial' = [serial EXCEPT !.content_chunks = r.next_id]
            /\ chunks' = r.chunks
            /\ stats' = Bump(stats, "content_chunks_created", Len(chunks))
            /\ pc' = next_stage(pc)
            /\ UNCHANGED <<exit_code, postgres_conn, fault>>
     \/ \E done \in 0..Min(Len(chunks), MaxFailPoint) :
          LET r == insert_content_chunks(content_chunks, serial.content_chunks,
                                         chunks, professional_id, done)
          IN  /\ serial' = [serial EXCEPT !.content_chunks = r.next_id]
              /\ chunks' = r.chunks
              /\ Abort(Bump(Bump(stats, "content_chunks_created", done),
                            "errors_encountered", 1), "write")
              /\ content_chunks' = rollback(content_chunks, r.table)
  /\ UNCHANGED <<professionals, experiences, skills, projects, education,
                 json_content, vector_index, runs, file, json_data,
                 professional_id, batch_no, attempt, trace, prev, call>>

\* generate_vector_embeddings, first part: info(), reset() when the index is
\* not empty; an exception here is only logged
ResetIndex ==
  /\ pc = "reset_index"
  /\ \E cleared \in BOOLEAN :
       vector_index' = IF cleared /\ DOMAIN vector_index # {}
                       THEN << >> ELSE vector_index
  /\ pc' = next_stage(pc)
  /\ batch_no' = 1
  /\ attempt' = 0
  /\ UNCHANGED <<tables, runs, file, json_data, professional_id, chunks, stats,
                 trace, exit_code, postgres_conn, prev, fault, call>>

\* one index.upsert call of _upsert_vector_batch and what follows it
UpsertAttempt ==
  /\ pc = "upsert"
  /\ batch_no <= Len(Batches(chunks, runs))
  /\ \E accepted \in BOOLEAN :
       LET batch == Batches(chunks, runs)[batch_no]
           r     == upsert_attempt(attempt, accepted, Len(batch))
       IN  /\ vector_index' = index_after_attempt(vector_index, batch, accepted)
           /\ trace' = Append(trace, [batch |-> batch_no, attempt |-> attempt,
                                      accepted |-> accepted, sleep |-> r.sleep])
           /\ CASE r.next = "return" ->
                     /\ batch_no' = batch_no + 1 /\ attempt' = 0
                     /\ stats' = Bump(stats, "vectors_embedded", r.embedded)
                     /\ UNCHANGED <<pc, exit_code, postgres_conn, fault>>
                [] r.next = "retry" ->
                     /\ IF attempt + 1 < max_retries
                        THEN batch_no' = batch_no /\ attempt' = attempt + 1
                        ELSE batch_no' = batch_no + 1 /\ attempt' = 0
                     /\ stats' = Bump(stats, "vectors_embedded", r.embedded)
                     /\ fault' = "upsert"
                     /\ UNCHANGED <<pc, exit_code, postgres_conn>>
                [] OTHER ->      \* raise: generate_vector_embeddings counts and re-raises
                     /\ Abort(Bump(Bump(stats, "vectors_embedded", r.embedded),
                                   "errors_encountered", 1), "upsert")
                     /\ UNCHANGED <<batch_no, attempt>>
  /\ UNCHANGED <<tables, runs, file, json_data, professional_id, chunks, prev, call>>

\* every batch is upserted: __exit__ without exception, exit status 0
Complete ==
  /\ pc = "upsert"
  /\ batch_no > Len(Batches(chunks, runs))
  /\ pc' = "idle"
  /\ exit_code' = 0
  /\ postgres_conn' = "closed"
  /\ UNCHANGED <<tables, vector_index, runs, file, run_locals, stats, prev, fault, call>>

Next ==
  \/ StartRun \/ Connect \/ Load \/ InsertProfessional \/ InsertExperiences
  \/ InsertSkills \/ InsertProjects \/ InsertEducation \/ InsertJsonContent
  \/ CreateChunks \/ InsertChunks \/ ResetIndex \/ UpsertAttempt \/ Complete

Spec == Init /\ [][Next]_vars

\* the steps of a run that has started: each is a call that returns or raises
RunStep ==
  \/ Connect \/ Load \/ InsertProfessional \/ InsertExperiences
  \/ InsertSkills \/ InsertProjects \/ InsertEducation \/ InsertJsonContent
  \/ CreateChunks \/ InsertChunks \/ ResetIndex \/ UpsertAttempt \/ Complete

\* a process that has started keeps running: main is one thread of
\* synchronous calls; nothing obliges anyone to start a run
FairSpec == Spec /\ WF_vars(RunStep)


(***************************************************************************)
(* The parsing functions on their own: a call is drawn from the inputs     *)
(* below and the function is applied to it.                                *)
(***************************************************************************)
\* well-formed dates, one or more per accepted format, with the datetime
\* they denote
KnownDates ==
  { [text |-> <<"2","0","2","1","-","0","3">>, year |-> 2021, month |-> 3],
    [text |-> <<"2","0","1","9","-","0","1">>, year |-> 2019, month |-> 1],
    [text |-> <<"2","0","2","0","-","0","6">>, year |-> 2020, month |-> 6],
    [text |-> <<"2","0","2","0","/","1","1">>, year |-> 2020, month |-> 11],
    [text |-> <<"0","6","/","2","0","2","0">>, year |-> 2020, month |-> 6],
    [text |-> <<"2","0","2","0">>, year |-> 2020, month |-> 1],
    [text |-> <<"M","a","r","c","h"," ","2","0","2","1">>, year |-> 2021, month |-> 3],
    [text |-> <<"D","e","c"," ","2","0","1","8">>, year |-> 2018, month |-> 12],
    [text |-> <<"m","a","y"," ","2","0","2","0">>, year |-> 2020, month |-> 5] }

KnownDateTexts == {d.text : d \in KnownDates}

DateOf(text) ==
  LET d == CHOOSE k \in KnownDates : k.text = text
  IN  [year |-> d.year, month |-> d.month]

\* strings that are no date in any accepted format
UnparseableTexts ==
  { <<"2","0","2","1","-","1","3">>, <<"s","o","o","n">>, <<"0","0","0","0">>,
    <<"2","0","2","1","-","0","3","-","0","1">>, <<"S","e","p","t"," ","2","0","2","0">> }

OngoingWords ==
  { <<"P","r","e","s","e","n","t">>, <<"p","r","e","s","e","n","t">>,
    <<"P","R","E","S","E","N","T">>, <<"C","u","r","r","e","n","t">>,
    <<"c","u","r","r","e","n","t","l","y">> }

Separators ==
  { <<" ","-"," ">>, <<" ","ndash"," ">>, <<" ","mdash"," ">>,
    <<"-">>, <<"ndash">>, <<"mdash">>, <<" ","t","o"," ">> }

DurationCalls ==
  {[fn |-> "parse_duration", state |-> "pending", start |-> st, sep |-> sp,
    end |-> en, arg |-> st \o sp \o en] :
     st \in KnownDateTexts \cup UnparseableTexts \cup {<<>>},
     sp \in Separators \cup {<<>>},
     en \in KnownDateTexts \cup UnparseableTexts \cup OngoingWords \cup {<<>>}}
  \cup {[fn |-> "parse_duration", state |-> "pending", start |-> None,
          sep |-> <<>>, end |-> <<>>, arg |-> None]}

DateCalls ==
  {[fn |-> "parse_date", state |-> "pending", arg |-> t] :
     t \in KnownDateTexts \cup UnparseableTexts \cup OngoingWords \cup {<<>>, None}}

EducationEntries ==
  {[institution |-> <<"M","I","T">>]}
  \cup {[institution |-> <<"M","I","T">>, graduation_date |-> t] :
          t \in KnownDateTexts \cup UnparseableTexts \cup {<<>>, None}}

GraduationCalls ==
  {[fn |-> "graduation_date", state |-> "pending", arg |-> e] : e \in EducationEntries}

EducationStageCalls ==
  {[fn |-> "insert_education", state |-> "pending", arg |-> Get(d, "education", <<>>)] :
     d \in Docs}

\* an id-annotated chunk, the k-th of a list
AnnotatedChunk(k) ==
  [content |-> <<IntToStr(k)>>,
   metadata |-> [professional_id |-> 1, content_type |-> T_experience,
                 chunk_id |-> k,
                 vector_id |-> S_upstash \o textual_chunk_id(1, T_experience, k - 1)],
   chunk_type |-> T_experience,
   importance |-> IF k - 1 < 3 THEN "high" ELSE "medium",
   keywords |-> <<T_experience, W_work>>,
   date_context |-> None]

\* generate_vector_embeddings on chunk lists of every length up to MaxChunks
BatchCalls ==
  {[fn |-> "batches", state |-> "pending",
    arg |-> [k \in 1..n |-> AnnotatedChunk(k)]] : n \in 0..MaxChunks}

ParseInit ==
  /\ InitPipeline
  /\ \/ call \in DurationCalls
     \/ call \in DateCalls
     \/ call \in GraduationCalls
     \/ call \in EducationStageCalls
     \/ call \in BatchCalls

CallParseDuration ==
  /\ call.fn = "parse_duration" /\ call.state = "pending"
  /\ call' = [fn |-> call.fn, state |-> "returned", start |-> call.start,
              sep |-> call.sep, end |-> call.end, arg |-> call.arg,
              ret |-> parse_duration(call.arg)]
  /\ UNCHANGED <<tables, vector_index, pc, runs, file, run_locals, stats,
                 exit_code, postgres_conn, prev, fault>>

CallParseDate ==
  /\ call.fn = "parse_date" /\ call.state = "pending"
  /\ call' = [fn |-> call.fn, state |-> "returned", arg |-> call.arg,
              ret |-> parse_date(call.arg)]
  /\ UNCHANGED <<tables, vector_index, pc, runs, file, run_locals, stats,
                 exit_code, postgres_conn, prev, fault>>

\* the date handling of one iteration of insert_education
CallGraduationDate ==
  /\ call.fn = "graduation_date" /\ call.state = "pending"
  /\ call' = [fn |-> call.fn, state |-> "returned", arg |-> call.arg,
              ret |-> graduation_date(call.arg)]
  /\ UNCHANGED <<tables, vector_index, pc, runs, file, run_locals, stats,
                 exit_code, postgres_conn, prev, fault>>

\* the loop of insert_education over a document's list, on an empty table
CallInsertEducation ==
  /\ call.fn = "insert_education" /\ call.state = "pending"
  /\ call' = [fn |-> call.fn, state |-> "returned", arg |-> call.arg,
              ret |-> [raised |-> Raises_insert_education(call.arg),
                       rows |-> insert_education(<<>>, call.arg, 1)]]
  /\ UNCHANGED <<tables, vector_index, pc, runs, file, run_locals, stats,
                 exit_code, postgres_conn, prev, fault>>

\* the batch loop of generate_vector_embeddings, no upsert failing
CallBatches ==
  /\ call.fn = "batches" /\ call.state = "pending"
  /\ call' = [fn |-> call.fn, state |-> "returned", arg |-> call.arg,
              ret |-> Batches(call.arg, 0)]
  /\ UNCHANGED <<tables, vector_index, pc, runs, file, run_locals, stats,
                 exit_code, postgres_conn, prev, fault>>

ParseNext ==
  \/ CallParseDuration \/ CallParseDate \/ CallGraduationDate \/ CallInsertEducation
  \/ CallBatches

SpecParse == ParseInit /\ [][ParseNext]_vars


(***************************************************************************)
(* run_concurrent_search_tests of the test harness: five queries run on    *)
(* the threads of a pool while the calling thread collects the futures as  *)
(* they complete.  The call record holds the futures and the locals.       *)
(***************************************************************************)
\* len(concurrent_queries)
num_concurrent == 5

\* the queries, by their position in concurrent_queries
Queries == 1..num_concurrent

\* largest reading of time.time() - start_time, in ticks of the clock
MaxElapsed == 1

\* the body of the as_completed loop for the future of query q: the entry of
\* results, and str(e) appended to errors when future.result() raises
record_result(results, errors, q, outcome) ==
  [results |-> [results EXCEPT ![q] = IF outcome = "returned"
                                      THEN "success" ELSE "failure"],
   errors |-> IF outcome = "returned" THEN errors ELSE Append(errors, q)]

\* the dict built after the pool has shut down; num_concurrent / total_time
\* raises ZeroDivisionError when the clock has not advanced, and the outer
\* except returns {"error": ...}
concurrent_results(results, errors, total_time) ==
  IF total_time = 0
  THEN [kind |-> "error"]
  ELSE [kind |-> "results",
        total_queries |-> num_concurrent,
        queries_per_second |-> <<num_concurrent, total_time>>,
        success_rate |-> <<Cardinality({q \in Queries : results[q] = "success"}),
                           num_concurrent>>,
        errors |-> errors,
        individual_results |-> results]

SearchInit ==
  /\ InitPipeline
  /\ call = [fn |-> "run_concurrent_search_tests", state |-> "collecting",
             futures |-> [q \in Queries |-> "running"],
             results |-> [q \in Queries |-> "none"],
             errors |-> <<>>]

\* a worker thread: self.vector_index.query returns or raises
QueryCompletes ==
  /\ call.fn = "run_concurrent_search_tests" /\ call.state = "collecting"
  /\ \E q \in Queries, outcome \in {"returned", "raised"} :
       /\ call.futures[q] = "running"
       /\ call' = [call EXCEPT !.futures[q] = outcome]
  /\ UNCHANGED <<tables, vector_index, pc, runs, file, run_locals, stats,
                 exit_code, postgres_conn, prev, fault>>

\* the calling thread: as_completed yields a finished future
RecordResult ==
  /\ call.fn = "run_concurrent_search_tests" /\ call.state = "collecting"
  /\ \E q \in Queries :
       /\ call.futures[q] # "running"
       /\ call.results[q] = "none"
       /\ LET r == record_result(call.results, call.errors, q, call.futures[q])
          IN  call' = [call EXCEPT !.results = r.results, !.errors = r.errors]
  /\ UNCHANGED <<tables, vector_index, pc, runs, file, run_locals, stats,
                 exit_code, postgres_conn, prev, fault>>

\* every future has been yielded, the pool is shut down, the function returns
Summarize ==
  /\ call.fn = "run_concurrent_search_tests" /\ call.state = "collecting"
  /\ \A q \in Queries : call.results[q] # "none"
  /\ \E total_time \in 0..MaxElapsed :
       call' = [fn |-> call.fn, state |-> "returned", futures |-> call.futures,
                results |-> call.results, errors |-> call.errors,
                total_time |-> total_time,
                ret |-> concurrent_results(call.results, call.errors, total_time)]
  /\ UNCHANGED <<tables, vector_index, pc, runs, file, run_locals, stats,
                 exit_code, postgres_conn, prev, fault>>

SearchNext == QueryCompletes \/ RecordResult \/ Summarize

SpecSearch == SearchInit /\ [][SearchNext]_vars


(***************************************************************************)
(* Two migration processes started on the same profile document, each with *)
(* its own connection and no lock between them.  The call record holds     *)
(* each process's position and locals; the stores are the shared ones.     *)
(* The SELECT of insert_professional_data and the statement that follows   *)
(* it are separate steps; every other stage is one transaction and one     *)
(* step, and both processes find their services up.                        *)
(***************************************************************************)
Procs == {1, 2}

Other(p) == 3 - p

ProcPc(p) == call.proc[p].pc

\* the process has issued a statement and has not exited yet
Running(p) == ProcPc(p) \notin {"professional", "done"}

\* process p takes a step that leaves it at stage and with the locals of
\* fields changed; overlapped records that the other process was under way
ProcStep(p, stage, fields) ==
  [call EXCEPT !.proc[p] = Merge([@ EXCEPT !.pc = stage], fields),
               !.overlapped = @ \/ Running(Other(p))]

TwoRunsInit ==
  /\ InitPipeline
  /\ call \in {[fn |-> "two_runs", state |-> "running", data |-> d,
                overlapped |-> FALSE,
                proc |-> [p \in Procs |->
                            [pc |-> "professional", existing |-> {},
                             professional_id |-> 0, chunks |-> <<>>]]] :
               d \in Docs}

\* cursor.execute(check_query, (email,)); existing = cursor.fetchone()
ProcSelectProfessional(p) ==
  /\ ProcPc(p) = "professional"
  /\ LET contact == Get(call.data.personalInfo, "contact", << >>)
         email   == Get(contact, "email", NoEmail)
     IN  call' = ProcStep(p, "professional_write",
                          [existing |-> ExistingProfessional(professionals, email)])
  /\ UNCHANGED <<tables, vector_index, pc, runs, file, run_locals, stats,
                 exit_code, postgres_conn, prev, fault>>

\* the UPDATE or the INSERT ... RETURNING id, then commit
ProcWriteProfessional(p) ==
  /\ ProcPc(p) = "professional_write"
  /\ LET r == professional_write(professionals, serial.professionals,
                                 call.data.personalInfo, call.proc[p].existing)
     IN  /\ professionals' = r.table
         /\ serial' = [serial EXCEPT !.professionals = r.next_id]
         /\ call' = ProcStep(p, next_stage("professional"),
                             [professional_id |-> r.professional_id])
  /\ UNCHANGED <<experiences, skills, projects, education, json_content,
                 content_chunks, vector_index, pc, runs, file, run_locals,
                 stats, exit_code, postgres_conn, prev, fault>>

ProcInsertExperiences(p) ==
  /\ ProcPc(p) = "experiences"
  /\ experiences' = IF has_section(call.data, "experience")
                    THEN insert_experiences(experiences, call.data.experience,
                                            call.proc[p].professional_id)
                    ELSE experiences
  /\ call' = ProcStep(p, next_stage("experiences"), << >>)
  /\ UNCHANGED <<professionals, skills, projects, education, json_content,
                 content_chunks, serial, vector_index, pc, runs, file,
                 run_locals, stats, exit_code, postgres_conn, prev, fault>>

ProcInsertSkills(p) ==
  /\ ProcPc(p) = "skills"
  /\ skills' = IF has_section(call.data, "skills")
               THEN insert_skills(skills, call.data.skills,
                                  call.proc[p].professional_id)
               ELSE skills
  /\ call' = ProcStep(p, next_stage("skills"), << >>)
  /\ UNCHANGED <<professionals, experiences, projects, education, json_content,
                 content_chunks, serial, vector_index, pc, runs, file,
                 run_locals, stats, exit_code, postgres_conn, prev, fault>>

ProcInsertProjects(p) ==
  /\ ProcPc(p) = "projects"
  /\ projects' = IF has_section(call.data, "projects")
                 THEN insert_projects(projects, call.data.projects,
                                      call.proc[p].professional_id)
                 ELSE projects
  /\ call' = ProcStep(p, next_stage("projects"), << >>)
  /\ UNCHANGED <<professionals, experiences, skills, education, json_content,
                 content_chunks, serial, vector_index, pc, runs, file,
                 run_locals, stats, exit_code, postgres_conn, prev, fault>>

\* an education entry the stage cannot store ends the process
ProcInsertEducation(p) ==
  /\ ProcPc(p) = "education"
  /\ IF ~has_section(call.data, "education")
     THEN /\ call' = ProcStep(p, next_stage("education"), << >>)
          /\ UNCHANGED education
     ELSE IF Raises_insert_education(call.data.education)
     THEN /\ call' = ProcStep(p, "done", << >>)
          /\ education' = rollback(education,
                                   DeleteOwned(education, call.proc[p].professional_id))
     ELSE /\ call' = ProcStep(p, next_stage("education"), << >>)
          /\ education' = insert_education(education, call.data.education,
                                           call.proc[p].professional_id)
  /\ UNCHANGED <<professionals, experiences, skills, projects, json_content,
                 content_chunks, serial, vector_index, pc, runs, file,
                 run_locals, stats, exit_code, postgres_conn, prev, fault>>

ProcInsertJsonContent(p) ==
  /\ ProcPc(p) = "json_content"
  /\ \E key_order \in dict_orders(call.data) :
       LET r == insert_json_content(json_content, serial.json_content, call.data,
                                    key_order, call.proc[p].professional_id)
       IN  /\ json_content' = r.table
           /\ serial' = [serial EXCEPT !.json_content = r.next_id]
  /\ call' = ProcStep(p, next_stage("json_content"), << >>)
  /\ UNCHANGED <<professionals, experiences, skills, projects, education,
                 content_chunks, vector_index, pc, runs, file, run_locals,
                 stats, exit_code, postgres_conn, prev, fault>>

ProcCreateChunks(p) ==
  /\ ProcPc(p) = "create_chunks"
  /\ call' = ProcStep(p, next_stage("create_chunks"),
                      [chunks |-> create_content_chunks(call.data,
                                     call.proc[p].professional_id)])
  /\ UNCHANGED <<tables, vector_index, pc, runs, file, run_locals, stats,
                 exit_code, postgres_conn, prev, fault>>

ProcInsertChunks(p) ==
  /\ ProcPc(p) = "insert_chunks"
  /\ LET r == insert_content_chunks(content_chunks, serial.content_chunks,
                                    call.proc[p].chunks,
                                    call.proc[p].professional_id,
                                    Len(call.proc[p].chunks))
     IN  /\ content_chunks' = r.table
         /\ serial' = [serial EXCEPT !.content_chunks = r.next_id]
         /\ call' = ProcStep(p, next_stage("insert_chunks"), [chunks |-> r.chunks])
  /\ UNCHANGED <<professionals, experiences, skills, projects, education,
                 json_content, vector_index, pc, runs, file, run_locals, stats,
                 exit_code, postgres_conn, prev, fault>>

\* info(), reset() when the index is not empty
ProcResetIndex(p) ==
  /\ ProcPc(p) = "reset_index"
  /\ vector_index' = << >>
  /\ call' = ProcStep(p, next_stage("reset_index"), << >>)
  /\ UNCHANGED <<tables, pc, runs, file, run_locals, stats, exit_code,
                 postgres_conn, prev, fault>>

RECURSIVE UpsertAll(_, _)
\* the batch loop with every upsert accepted at its first attempt
UpsertAll(index, batches) ==
  IF batches = <<>> THEN index
  ELSE UpsertAll(index_after_attempt(index, Head(batches), TRUE), Tail(batches))

\* the batches of generate_vector_embeddings, then the process exits
ProcUpsert(p) ==
  /\ ProcPc(p) = "upsert"
  /\ vector_index' = UpsertAll(vector_index, Batches(call.proc[p].chunks, p))
  /\ call' = ProcStep(p, "done", << >>)
  /\ UNCHANGED <<tables, pc, runs, file, run_locals, stats, exit_code,
                 postgres_conn, prev, fault>>

TwoRunsNext ==
  \E p \in Procs :
    \/ ProcSelectProfessional(p) \/ ProcWriteProfessional(p)
    \/ ProcInsertExperiences(p) \/ ProcInsertSkills(p) \/ ProcInsertProjects(p)
    \/ ProcInsertEducation(p) \/ ProcInsertJsonContent(p) \/ ProcCreateChunks(p)
    \/ ProcInsertChunks(p) \/ ProcResetIndex(p) \/ ProcUpsert(p)

SpecTwoRuns == TwoRunsInit /\ [][TwoRunsNext]_vars


\* self.vector_index.query(..., filter="key = 'value'"): the records of the
\* index the filter admits, before ranking and top_k
metadata_filter(index, key, value) ==
  {id \in DOMAIN index :
     key \in DOMAIN index[id].metadata /\ index[id].metadata[key] = value}


\* get_chunk_content, and the same SELECT in debug_rag: the contents of the
\* rows WHERE chunk_id = key; fetchone() returns the first row of a result
\* that has no ORDER BY, so any of them.  key is the query parameter as the
\* driver adapts it: a str becomes a text literal, an int an integer literal,
\* and the text column chunk_id equals no integer (the server rejects the
\* comparison and the caller reports that no content was retrieved).
get_chunk_content(table, key) ==
  {table[i].content : i \in {j \in 1..Len(table) :
                               key.sql = "text" /\ table[j].chunk_id = key.value}}

\* a str query parameter
text_param(s) == [sql |-> "text", value |-> s]

\* run_single_test, else branch: metadata.get('chunk_id', 'unknown'); the
\* migrator stores the integer id of the row under that key
metadata_chunk_id(metadata) ==
  IF "chunk_id" \in DOMAIN metadata
  THEN [sql |-> "integer", value |-> metadata.chunk_id]
  ELSE text_param(<<"u","n","k","n","o","w","n">>)

\* debug_rag: result.metadata.get('chunk_id')
debug_rag_chunk_id(metadata) ==
  IF "chunk_id" \in DOMAIN metadata
  THEN [sql |-> "integer", value |-> metadata.chunk_id]
  ELSE [sql |-> "null", value |-> None]


(***************************************************************************)
(* Properties.                                                             *)
(***************************************************************************)
RunCompleted == pc = "idle" /\ exit_code = 0

\* the Chunk Persister of the current run has committed
ChunksPersisted ==
  \/ pc \in {"reset_index", "upsert"}
  \/ pc = "idle" /\ batch_no >= 1

ValidDocument(d) == required_sections \subseteq DOMAIN d

RECURSIVE SumOfLens(_)
SumOfLens(groups) ==
  IF groups = <<>> THEN 0
  ELSE Len(Get(Head(groups), "skills", <<>>)) + SumOfLens(Tail(groups))

DeclaredSkills(d) ==
  SumOfLens(Get(d.skills, "technical", <<>>)) + Len(Get(d.skills, "soft_skills", <<>>))

RowsWithEmail(email) == {i \in 1..Len(professionals) : professionals[i].email = email}

\* the Relational Mapper of the current run is through (its last stage,
\* education, is behind) or the run has completed
MapperDone ==
  \/ pc \in {"json_content", "create_chunks", "insert_chunks", "reset_index", "upsert"}
  \/ RunCompleted

C2_EveryChunkHasItsVector ==
  pc = "idle" =>
    \A i \in 1..Len(content_chunks) :
      content_chunks[i].vector_id \in DOMAIN vector_index

\* C3: the vector_id column is "upstash-" + chunk_id; a persisted chunk's
\* metadata vector_id equals the column of its row; every record of the
\* index has the id of a row, and stripping the prefix from that id the way
\* run_single_test does yields the row's textual chunk_id.
C3_VectorIdRoundTrip ==
  /\ \A i \in 1..Len(content_chunks) :
       content_chunks[i].vector_id = S_upstash \o content_chunks[i].chunk_id
  /\ ChunksPersisted =>
       \A k \in 1..Len(chunks) :
         \E i \in 1..Len(content_chunks) :
           /\ content_chunks[i].id = chunks[k].metadata.chunk_id
           /\ content_chunks[i].vector_id = chunks[k].metadata.vector_id
           /\ MakeVector(chunks[k], runs).id = content_chunks[i].vector_id
  /\ \A id \in DOMAIN vector_index :
       \E i \in 1..Len(content_chunks) :
         /\ content_chunks[i].vector_id = id
         /\ vector_index[id].metadata.vector_id = id
         /\ retrieval_chunk_id(id, vector_index[id].metadata) = content_chunks[i].chunk_id

C3_Witness ==
  /\ RunCompleted /\ file.data = Doc1
  /\ Cardinality(DOMAIN vector_index) = 12
  /\ \E id \in DOMAIN vector_index :
       retrieval_chunk_id(id, vector_index[id].metadata)
         = <<"c","h","u","n","k","-","1","-","e","x","p","e","r","i","e","n","c","e","-","1">>

\* C4: after insert_content_chunks the chunk at zero-based position i carries
\* in its metadata the id of the one row this run inserted with textual id
\* "chunk-{professional_id}-{chunk_type}-{i}", and the vector upserted for
\* the chunk carries the same chunk_id.
C4_MetadataHoldsRowId ==
  ChunksPersisted =>
    \A k \in 1..Len(chunks) :
      LET rows == {i \in 1..Len(content_chunks) :
                     content_chunks[i].id = chunks[k].metadata.chunk_id}
      IN  /\ Cardinality(rows) = 1
          /\ \A i \in rows :
               /\ content_chunks[i].chunk_id =
                    S_chunk \o IntToStr(professional_id) \o <<"-">>
                      \o chunks[k].chunk_type \o <<"-">> \o IntToStr(k - 1)
               /\ content_chunks[i].content = chunks[k].content
               /\ \A j \in 1..Len(content_chunks) :
                    content_chunks[j].chunk_id = content_chunks[i].chunk_id => j <= i
          /\ k <= stats.vectors_embedded =>
               /\ chunks[k].metadata.vector_id \in DOMAIN vector_index
               /\ vector_index[chunks[k].metadata.vector_id].metadata.chunk_id
                    = chunks[k].metadata.chunk_id

C4_Witness ==
  /\ RunCompleted /\ runs = 2 /\ file.data = Doc1 /\ prev.exit_code = 0
  /\ Len(chunks) = 12 /\ stats.vectors_embedded = 12
  /\ chunks[12].metadata.chunk_id > 12

\* trace positions of the upsert attempts of batch b, and the accepted ones
AttemptsOf(b) == {j \in 1..Len(trace) : trace[j].batch = b}
AcceptedOf(b) == {j \in AttemptsOf(b) : trace[j].accepted}

\* the batches of the current run, once its chunks carry their vector ids
RunBatches == IF ChunksPersisted THEN Batches(chunks, runs) ELSE <<>>

RECURSIVE EmbeddedUpTo(_)
EmbeddedUpTo(b) ==
  IF b = 0 THEN 0
  ELSE (IF AcceptedOf(b) # {} THEN Len(RunBatches[b]) ELSE 0)
       + EmbeddedUpTo(b - 1)

\* C5: a batch accepted at its k-th attempt (k in 1..3) after k-1 rejections
\* is accepted exactly once, adds its length to stats.vectors_embedded
\* exactly once, and the run goes on with the next batch.
C5_AcceptedOnceCountedOnce ==
    /\ \A j \in 1..Len(trace) : trace[j].batch \in 1..Len(RunBatches)
    /\ \A b \in 1..Len(RunBatches) : Cardinality(AcceptedOf(b)) <= 1
    /\ stats.vectors_embedded = EmbeddedUpTo(Len(RunBatches))
    /\ \A j \in 1..Len(trace) :
         trace[j].accepted =>
           /\ trace[j].attempt \in 0..2
           /\ \A m \in 1..trace[j].attempt :
                /\ j - m >= 1
                /\ trace[j - m].batch = trace[j].batch
                /\ ~trace[j - m].accepted
           /\ IF j < Len(trace)
              THEN trace[j + 1].batch = trace[j].batch + 1 /\ trace[j + 1].attempt = 0
              ELSE /\ batch_no = trace[j].batch + 1
                   /\ attempt = 0
                   /\ pc = "upsert" \/ RunCompleted

C5_Witness ==
  /\ pc = "upsert" /\ batch_no = 2 /\ Len(trace) = 3
  /\ ~trace[1].accepted /\ ~trace[2].accepted /\ trace[3].accepted
  /\ stats.vectors_embedded = 10
  /\ Cardinality(DOMAIN vector_index) = 10

\* C6: when the third attempt of a batch is rejected too, the run is aborted
\* with that error, no chunk of the batch is counted in
\* stats.vectors_embedded, and no upsert is issued afterwards in that run.
C6_ExhaustedRetriesAbort ==
  \A j \in 1..Len(trace) :
    (~trace[j].accepted /\ trace[j].attempt = 2) =>
      /\ j = Len(trace)
      /\ j >= 3 /\ ~trace[j - 1].accepted /\ ~trace[j - 2].accepted
      /\ pc = "idle" /\ exit_code = 1
      /\ AcceptedOf(trace[j].batch) = {}
      /\ stats.vectors_embedded = EmbeddedUpTo(trace[j].batch - 1)
      /\ stats.errors_encountered >= 1

C6_Witness ==
  /\ pc = "idle" /\ exit_code = 1 /\ Len(trace) = 4
  /\ trace[1].accepted /\ trace[4].batch = 2 /\ ~trace[4].accepted
  /\ Len(RunBatches) = 2
  /\ stats.vectors_embedded = 10

\* C7: a batch gets at most 3 upsert attempts, none after its first
\* success; the n-th rejected attempt is followed by a sleep of 1 * n for
\* n in {1, 2} and by no sleep for n = 3.
C7_BoundedRetriesLinearDelay ==
  /\ \A b \in 1..Len(RunBatches) :
       /\ Cardinality(AttemptsOf(b)) <= 3
       /\ \A j \in AcceptedOf(b) :
            \A m \in AttemptsOf(b) : m <= j
  /\ \A j \in 1..Len(trace) :
       /\ trace[j].attempt = Cardinality({m \in AttemptsOf(trace[j].batch) : m < j})
       /\ trace[j].sleep =
            IF trace[j].accepted THEN 0
            ELSE IF trace[j].attempt = 0 THEN 1
            ELSE IF trace[j].attempt = 1 THEN 2
            ELSE 0

C7_Witness ==
  /\ Len(trace) = 3 /\ pc = "idle" /\ exit_code = 1
  /\ \A j \in 1..3 : ~trace[j].accepted /\ trace[j].batch = 1
  /\ trace[1].sleep = 1 /\ trace[2].sleep = 2 /\ trace[3].sleep = 0

Returned(fn) == call.fn = fn /\ call.state = "returned"

\* C8: for "<S> - <E>" with S a well-formed date, parse_duration returns
\* (parse_date(S), None, True) when E is "Present" or "Current" and
\* (parse_date(S), parse_date(E), False) when E is a well-formed date;
\* "2021-03 - Present" gives (March 2021, None, True) and
\* "2019-01 - 2020-06" gives (January 2019, June 2020, False).
C8_ParseDuration ==
  (Returned("parse_duration") /\ call.sep = <<" ", "-", " ">>
     /\ call.start \in KnownDateTexts) =>
    /\ call.end \in {<<"P","r","e","s","e","n","t">>, <<"C","u","r","r","e","n","t">>} =>
         /\ call.ret.start_date = parse_date(call.start).value
         /\ call.ret.start_date = DateOf(call.start)
         /\ call.ret.end_date = NoDate
         /\ call.ret.is_current = TRUE
    /\ call.end \in KnownDateTexts =>
         /\ call.ret.start_date = parse_date(call.start).value
         /\ call.ret.end_date = parse_date(call.end).value
         /\ call.ret.start_date = DateOf(call.start)
         /\ call.ret.end_date = DateOf(call.end)
         /\ call.ret.is_current = FALSE
    /\ call.arg = <<"2","0","2","1","-","0","3"," ","-"," ","P","r","e","s","e","n","t">> =>
         call.ret = [raised |-> FALSE, start_date |-> [year |-> 2021, month |-> 3],
                     end_date |-> NoDate, is_current |-> TRUE]
    /\ call.arg = <<"2","0","1","9","-","0","1"," ","-"," ","2","0","2","0","-","0","6">> =>
         call.ret = [raised |-> FALSE, start_date |-> [year |-> 2019, month |-> 1],
                     end_date |-> [year |-> 2020, month |-> 6], is_current |-> FALSE]

C8_Witness ==
  /\ Returned("parse_duration")
  /\ call.arg = <<"2","0","1","9","-","0","1"," ","-"," ","2","0","2","0","-","0","6">>
  /\ call.ret.end_date = [year |-> 2020, month |-> 6]
  /\ ~call.ret.is_current

\* C9: every duration string that contains "present" or "current", in any
\* letter case, parses with is_current = True, whichever dash separates the
\* two parts.
C9_OngoingWheneverMentioned ==
  (Returned("parse_duration")
     /\ \/ Contains(Lower(call.arg), <<"p","r","e","s","e","n","t">>)
        \/ Contains(Lower(call.arg), <<"c","u","r","r","e","n","t">>)) =>
    call.ret.is_current = TRUE

ParsedOrNone(date) == date = NoDate \/ date \in {DateOf(t) : t \in KnownDateTexts}

TypeRank(k) ==
  Cardinality({j \in 1..(k - 1) : chunks[j].chunk_type = chunks[k].chunk_type})

\* the chunk list of the current run has been built
ChunksBuilt == chunks # <<>>

\* C11: in the chunk list built from a document, the identity chunk is
\* "high"; the experience chunk at zero-based position i is "high" for
\* i in {0, 1, 2} and "medium" from position 3 on; the chunk of a technical
\* skill group is "high" and the soft-skills chunk "medium"; a project chunk
\* is "high" exactly when the project's status is "completed" and "medium"
\* otherwise (also when it has no status); an education chunk is "medium".
C11_ImportanceRule ==
  ChunksBuilt =>
    \A k \in 1..Len(chunks) :
      LET c == chunks[k]
          i == TypeRank(k)
          expected ==
            CASE c.chunk_type = T_personal_info -> "high"
              [] c.chunk_type = T_experience ->
                   IF i \in {0, 1, 2} THEN "high" ELSE "medium"
              [] c.chunk_type = T_skills ->
                   IF i < Len(Get(json_data.skills, "technical", <<>>))
                   THEN "high" ELSE "medium"
              [] c.chunk_type = T_project ->
                   IF /\ "status" \in DOMAIN json_data.projects[i + 1]
                      /\ json_data.projects[i + 1].status = S_completed
                   THEN "high" ELSE "medium"
              [] c.chunk_type = T_education -> "medium"
              [] OTHER -> "none"
      IN  c.importance = expected

\* a chunk list with a fourth experience ("medium"), a third one ("high"),
\* a completed project, a project without status and a soft-skills chunk
C11_Witness ==
  /\ ChunksBuilt
  /\ \E k \in 1..Len(chunks) :
       chunks[k].chunk_type = T_experience /\ TypeRank(k) = 3
       /\ chunks[k].importance = "medium"
  /\ \E k \in 1..Len(chunks) :
       chunks[k].chunk_type = T_experience /\ TypeRank(k) = 2
       /\ chunks[k].importance = "high"
  /\ \E k \in 1..Len(chunks) :
       chunks[k].chunk_type = T_project /\ chunks[k].importance = "high"
  /\ \E k \in 1..Len(chunks) :
       chunks[k].chunk_type = T_project /\ chunks[k].importance = "medium"
       /\ "status" \notin DOMAIN json_data.projects[TypeRank(k) + 1]
  /\ \E k \in 1..Len(chunks) :
       chunks[k].chunk_type = T_skills /\ chunks[k].importance = "medium"

\* a run on a readable document that declares every required section but
\* education has been started
RunWithoutEducation ==
  /\ runs >= 1
  /\ file.state = "ok"
  /\ required_sections \ DOMAIN file.data = {"education"}

\* C12: in a run on a document without an education key, no external call
\* having failed, the run does not end otherwise than with exit status 0; at
\* every point of the run the education table is as it was when the run
\* started, no education INSERT has been counted, and no built chunk is of
\* type education.
C12_NoEducationSection ==
  RunWithoutEducation =>
    /\ (pc = "idle" /\ fault = "none") => exit_code = 0
    /\ education = prev.tables[5]
    /\ stats.education_inserted = 0
    /\ \A k \in 1..Len(chunks) : chunks[k].chunk_type # T_education

\* such a run has completed, chunks built and upserted
C12_Witness ==
  /\ RunWithoutEducation
  /\ RunCompleted
  /\ fault = "none"
  /\ ChunksBuilt
  /\ stats.vectors_embedded = Len(chunks)

\* the rows a section's entries map to, in document order; none for a section
\* the document omits
WantExperiences(D, pid) == insert_experiences(<<>>, Get(D, "experience", <<>>), pid)
WantSkills(D, pid) == insert_skills(<<>>, Get(D, "skills", << >>), pid)
WantProjects(D, pid) == insert_projects(<<>>, Get(D, "projects", <<>>), pid)
WantEducation(D, pid) == insert_education(<<>>, Get(D, "education", <<>>), pid)

\* C13: after a completed run on D, the rows the professional owns in
\* experiences, skills, projects and education are exactly D's entries of the
\* section, in document order, and none when D omits the section.
C13_OwnedRowsAreTheDocument ==
  RunCompleted =>
    LET want == [experiences |-> WantExperiences(json_data, professional_id),
                 skills |-> WantSkills(json_data, professional_id),
                 projects |-> WantProjects(json_data, professional_id),
                 education |-> WantEducation(json_data, professional_id)]
    IN  /\ Owned(experiences, professional_id) = want.experiences
        /\ Owned(skills, professional_id) = want.skills
        /\ Owned(projects, professional_id) = want.projects
        /\ Owned(education, professional_id) = want.education

\* the professional stage of the current run commits in this step
ProfessionalCommits == pc = "professional" /\ pc' = "experiences"

\* C14: no two professionals rows have the same email or the same id.  A
\* professional stage that commits for an email that a row already has leaves
\* the number of rows, the id sequence and professionals_inserted as they
\* were, returns that row's id, and rewrites only its name and title, to the
\* document's; one that commits for an email that no row has appends one row
\* with a fresh id, returns that id and adds one to professionals_inserted.
\* professionals_inserted changes in no other case.
C14_OneRowPerEmail ==
  /\ [](\A i, j \in 1..Len(professionals) :
          (professionals[i].email = professionals[j].email
             \/ professionals[i].id = professionals[j].id) => i = j)
  /\ [][LET info  == json_data.personalInfo
            match == {i \in 1..Len(professionals) :
                        professionals[i].email = info.contact.email}
        IN  /\ (ProfessionalCommits /\ match # {}) =>
                 /\ Len(professionals') = Len(professionals)
                 /\ serial' = serial
                 /\ stats'.professionals_inserted = stats.professionals_inserted
                 /\ \A i \in match :
                      /\ professional_id' = professionals[i].id
                      /\ professionals'[i] =
                           [professionals[i] EXCEPT !.name = info.name,
                                                    !.title = info.title]
                 /\ \A i \in (1..Len(professionals)) \ match :
                      professionals'[i] = professionals[i]
            /\ (ProfessionalCommits /\ match = {}) =>
                 /\ professionals' =
                      Append(professionals,
                             [id |-> professional_id', email |-> info.contact.email,
                              name |-> info.name, title |-> info.title])
                 /\ \A i \in 1..Len(professionals) :
                      professionals[i].id # professional_id'
                 /\ stats'.professionals_inserted = stats.professionals_inserted + 1
            /\ (pc = "professional"
                  /\ stats'.professionals_inserted # stats.professionals_inserted) =>
                 match = {}
       ]_vars

\* a second run has updated the row of the first in place: same id, the new
\* document's name, nothing counted as inserted
C14_Witness ==
  /\ runs = 2 /\ pc = "experiences"
  /\ prev.exit_code = 0
  /\ Len(professionals) = 1
  /\ professionals[1].id = 1 /\ professional_id = 1
  /\ professionals[1].name = Doc2.personalInfo.name
  /\ prev.tables[1][1].name = Doc1.personalInfo.name
  /\ stats.professionals_inserted = 0

\* a dependent-entity stage and the table it writes
DependentStages ==
  {"experiences", "skills", "projects", "education", "insert_chunks"}

TableOf(stage) ==
  CASE stage = "experiences" -> experiences
    [] stage = "skills" -> skills
    [] stage = "projects" -> projects
    [] stage = "education" -> education
    [] stage = "insert_chunks" -> content_chunks

\* the value TableOf has after the step
TableOfNext(stage) ==
  CASE stage = "experiences" -> experiences'
    [] stage = "skills" -> skills'
    [] stage = "projects" -> projects'
    [] stage = "education" -> education'
    [] stage = "insert_chunks" -> content_chunks'

\* the stage the run is in fails in this step
StageFails == pc \in DependentStages /\ pc' = "idle"

\* C15: a step in which a dependent-entity stage fails, after any number of
\* its statements, leaves the stage's table exactly as it was before the
\* stage; errors_encountered grows by two, once in the stage's except clause
\* and once in __exit__, which sees the re-raised exception; the run ends
\* with exit status 1.
C15_FailedStageRolledBack ==
  [][StageFails =>
       /\ TableOfNext(pc) = TableOf(pc)
       /\ stats'.errors_encountered = stats.errors_encountered + 2
       /\ exit_code' = 1
    ]_vars

\* the experiences stage of a second run has failed after one INSERT (the
\* counter shows it) and the professional's rows of the first run are there
C15_Witness ==
  /\ pc = "idle" /\ exit_code = 1 /\ fault = "write"
  /\ runs = 2 /\ prev.exit_code = 0
  /\ stats.experiences_inserted = 1 /\ stats.skills_inserted = 0
  /\ Len(json_data.experience) > 1
  /\ experiences = prev.tables[2]
  /\ Len(Owned(experiences, professional_id)) > 1

\* the source file of the run is missing, unreadable or not JSON
InputError == file.state # "ok"

\* C16: a run whose source file is missing, unreadable or not JSON gets no
\* further than loading and ends with exit status 1, and no step of it
\* changes a relational table, an id sequence or the vector index.
C16_InputErrorWritesNothing ==
  /\ []((runs >= 1 /\ InputError) =>
          /\ pc \in {"idle", "connect", "load"}
          /\ pc = "idle" => exit_code = 1)
  /\ [][file'.state # "ok" =>
          /\ tables' = tables
          /\ vector_index' = vector_index
       ]_vars

\* a run on a file that is not JSON has connected, failed to load and ended,
\* the stores holding the data of an earlier run
C16_Witness ==
  /\ InputError /\ file.state = "invalid"
  /\ pc = "idle" /\ exit_code = 1 /\ postgres_conn = "closed"
  /\ fault = "input"
  /\ professionals # <<>> /\ DOMAIN vector_index # {}

\* the stages in the order of the claim, connecting first; the vector stage
\* is the reset of the index followed by the upserts
StageOrder ==
  <<"connect", "load", "professional", "experiences", "skills", "projects",
    "education", "json_content", "create_chunks", "insert_chunks",
    "reset_index", "upsert">>

\* every chunk of the run has its committed content_chunks row
ChunkRowsCommitted ==
  /\ ChunksBuilt
  /\ \A k \in 1..Len(chunks) :
       /\ "chunk_id" \in DOMAIN chunks[k].metadata
       /\ \E r \in 1..Len(content_chunks) :
            content_chunks[r].id = chunks[k].metadata.chunk_id

\* C17: a run moves from a stage only to the next stage of the order or to
\* its end; a relational table changes only in the single step in which its
\* own stage commits and hands over to the next stage, so that it is
\* committed when the next stage starts; the vector index changes only in
\* the reset and upsert steps, when every chunk's content_chunks row is
\* committed.
C17_StageOrder ==
  [][/\ (pc' # pc /\ pc # "idle" /\ pc' # "idle") =>
          \E k \in 1..(Len(StageOrder) - 1) :
            pc = StageOrder[k] /\ pc' = StageOrder[k + 1]
     /\ (pc = "idle" /\ pc' # "idle") => pc' = "connect"
     /\ professionals' # professionals =>
          pc = "professional" /\ pc' = "experiences"
     /\ experiences' # experiences => pc = "experiences" /\ pc' = "skills"
     /\ skills' # skills => pc = "skills" /\ pc' = "projects"
     /\ projects' # projects => pc = "projects" /\ pc' = "education"
     /\ education' # education => pc = "education" /\ pc' = "json_content"
     /\ json_content' # json_content =>
          pc = "json_content" /\ pc' = "create_chunks"
     /\ content_chunks' # content_chunks =>
          pc = "insert_chunks" /\ pc' = "reset_index"
     /\ vector_index' # vector_index =>
          pc \in {"reset_index", "upsert"} /\ ChunkRowsCommitted
    ]_vars

\* a run is in its upsert stage with vectors in the index, each table
\* holding what its stage committed
C17_Witness ==
  /\ pc = "upsert" /\ batch_no = 2
  /\ DOMAIN vector_index # {}
  /\ ChunkRowsCommitted
  /\ experiences # <<>> /\ skills # <<>> /\ projects # <<>> /\ education # <<>>
  /\ json_content # <<>>

\* the values of one field of a sequence of rows or of document entries
FieldOf(rows, field) == [i \in 1..Len(rows) |-> Get(rows[i], field, None)]

\* the professional's rows of a section are the document's entries, one row
\* per entry, in document order
ExperiencesInPlace(table) ==
  has_section(json_data, "experience") =>
    FieldOf(Owned(table, professional_id), "company")
      = FieldOf(json_data.experience, "company")
SkillsInPlace(table) ==
  has_section(json_data, "skills") =>
    Len(Owned(table, professional_id)) = DeclaredSkills(json_data)
ProjectsInPlace(table) ==
  has_section(json_data, "projects") =>
    FieldOf(Owned(table, professional_id), "name")
      = FieldOf(json_data.projects, "name")
EducationInPlace(table) ==
  has_section(json_data, "education") =>
    FieldOf(Owned(table, professional_id), "institution")
      = FieldOf(json_data.education, "institution")

StagePos(stage) == CHOOSE k \in 1..Len(StageOrder) : StageOrder[k] = stage

\* the stage the run is in comes after the given stage
Past(stage) == pc # "idle" /\ StagePos(pc) > StagePos(stage)

\* the run fails in this step
RunFails == pc # "idle" /\ pc' = "idle" /\ exit_code' = 1

\* C18: the step in which a run fails changes no relational table and not
\* the index; after it, the professional's row and, for each section the
\* document declares, the rows of every stage that had committed are in
\* place, the persisted chunk rows are in place if that stage was passed, and
\* when it is a vector batch that fails, the vectors of every earlier batch
\* are in the index.
C18_FailureKeepsEarlierWork ==
  [][RunFails =>
       /\ UNCHANGED <<professionals, experiences, skills, projects,
                      education, json_content, content_chunks>>
       /\ vector_index' = vector_index
       /\ Past("professional") =>
            \E i \in 1..Len(professionals') :
              /\ professionals'[i].id = professional_id
              /\ professionals'[i].name = json_data.personalInfo.name
       /\ Past("experiences") => ExperiencesInPlace(experiences')
       /\ Past("skills") => SkillsInPlace(skills')
       /\ Past("projects") => ProjectsInPlace(projects')
       /\ Past("education") => EducationInPlace(education')
       /\ Past("json_content") =>
            \E i \in 1..Len(json_content') :
              /\ json_content'[i].professional_id = professional_id
              /\ json_content'[i].content = json_data
       /\ Past("insert_chunks") => ChunkRowsCommitted'
       /\ pc = "upsert" =>
            LET batches == RunBatches
            IN  \A b \in 1..(batch_no - 1) : \A k \in 1..Len(batches[b]) :
                  /\ batches[b][k].id \in DOMAIN vector_index'
                  /\ vector_index'[batches[b][k].id].data = batches[b][k].data
    ]_vars

\* the second batch of a run has exhausted its retries; the ten vectors of
\* the first batch are in the index and the tables hold the run's rows
C18_Witness ==
  /\ pc = "idle" /\ exit_code = 1 /\ fault = "upsert"
  /\ batch_no = 2
  /\ Cardinality(DOMAIN vector_index) = batch_size
  /\ ChunkRowsCommitted
  /\ ExperiencesInPlace(experiences)
  /\ experiences # <<>>

\* the external failures that are fatal at once
FatalFaults == {"input", "config", "connection", "write"}

\* a batch of the run has been rejected max_retries times
RetriesExhausted ==
  \E j \in 1..Len(trace) :
    Cardinality(AttemptsOf(trace[j].batch) \ AcceptedOf(trace[j].batch)) >= max_retries

\* every stage of the run has done its work
EveryStageCompleted ==
  /\ json_data = file.data
  /\ \E i \in 1..Len(professionals) : professionals[i].id = professional_id
  /\ ExperiencesInPlace(experiences)
  /\ SkillsInPlace(skills)
  /\ ProjectsInPlace(projects)
  /\ EducationInPlace(education)
  /\ \E i \in 1..Len(json_content) :
       /\ json_content[i].professional_id = professional_id
       /\ json_content[i].content = json_data
  /\ chunks # <<>> /\ ChunkRowsCommitted
  /\ LET batches == RunBatches
     IN  /\ batches # <<>>
         /\ \A b \in 1..Len(batches) :
              /\ AcceptedOf(b) # {}
              /\ \A k \in 1..Len(batches[b]) :
                   batches[b][k].id \in DOMAIN vector_index
  /\ stats.vectors_embedded = Len(chunks)

\* C19: the exit status is -1 exactly while a run is under way or none has
\* started, and else 0 or 1.  Once an input, configuration, connection or
\* write failure has occurred, or a batch has been rejected max_retries
\* times, the run is over with exit status 1.  The exit status is 0 only
\* when no such failure occurred and every stage, every vector batch
\* included, has completed.
C19_ExitStatus ==
  /\ exit_code \in {-1, 0, 1}
  /\ runs >= 1 => (exit_code = -1 <=> pc # "idle")
  /\ (fault \in FatalFaults \/ RetriesExhausted) => (pc = "idle" /\ exit_code = 1)
  /\ exit_code = 0 =>
       /\ pc = "idle"
       /\ fault \notin FatalFaults /\ ~RetriesExhausted
       /\ EveryStageCompleted

\* a run with two batches has ended with exit status 0 although one upsert
\* attempt was rejected and retried
C19_Witness ==
  /\ exit_code = 0 /\ pc = "idle"
  /\ Len(RunBatches) = 2
  /\ fault = "upsert"
  /\ \E j \in 1..Len(trace) : ~trace[j].accepted
  /\ EveryStageCompleted

\* what a chunk is about: its type and the name of the entry it was built from
ChunkSubject(c) ==
  [type |-> c.chunk_type,
   name |-> CASE c.chunk_type = T_personal_info -> c.metadata.name
              [] c.chunk_type = T_experience -> c.metadata.company
              [] c.chunk_type = T_skills -> c.metadata.category
              [] c.chunk_type = T_project -> c.metadata.project_name
              [] c.chunk_type = T_education -> c.metadata.institution]

\* the subjects the claim lists for a document, in its order
SubjectsOf(D) ==
  LET info == Get(D, "personalInfo", << >>)
      exps == Get(D, "experience", <<>>)
      tech == Get(Get(D, "skills", << >>), "technical", <<>>)
      soft == "soft_skills" \in DOMAIN Get(D, "skills", << >>)
      prjs == Get(D, "projects", <<>>)
      edus == Get(D, "education", <<>>)
  IN  (IF DOMAIN info # {}
       THEN <<[type |-> T_personal_info, name |-> Get(info, "name", None)]>>
       ELSE <<>>)
      \o [i \in 1..Len(exps) |->
            [type |-> T_experience, name |-> Get(exps[i], "company", None)]]
      \o [i \in 1..Len(tech) |->
            [type |-> T_skills, name |-> Get(tech[i], "category", S_Technical)]]
      \o (IF soft THEN <<[type |-> T_skills, name |-> S_Soft_Skills]>> ELSE <<>>)
      \o [i \in 1..Len(prjs) |->
            [type |-> T_project, name |-> Get(prjs[i], "name", None)]]
      \o [i \in 1..Len(edus) |->
            [type |-> T_education, name |-> Get(edus[i], "institution", None)]]

\* C20: the chunk list a run builds has one chunk per subject of the
\* document, in the order identity, experiences, technical skill groups,
\* soft skills, projects, education, each group in document order; and when
\* it is handed to the persister it is the value of create_content_chunks
\* for the document and the professional id, whatever the stores hold and
\* whichever run it is.
C20_ChunkOrder ==
  ChunksBuilt =>
    /\ [k \in 1..Len(chunks) |-> ChunkSubject(chunks[k])] = SubjectsOf(json_data)
    /\ pc = "insert_chunks" =>
         chunks = create_content_chunks(json_data, professional_id)

\* the list of the document with all six kinds of subject has been built, in
\* a second run, over stores that hold the data of the first
C20_Witness ==
  /\ pc = "insert_chunks" /\ runs = 2
  /\ content_chunks # <<>>
  /\ Len(chunks) = 12
  /\ chunks[1].chunk_type = T_personal_info
  /\ chunks[5].chunk_type = T_experience
  /\ chunks[7].chunk_type = T_skills /\ chunks[7].metadata.category # S_Soft_Skills
  /\ chunks[8].metadata.category = S_Soft_Skills
  /\ chunks[9].chunk_type = T_project
  /\ chunks[12].chunk_type = T_education

\* C21: for a chunk list of length n, no upsert failing, the batch loop
\* submits ceil(n / 10) batches; the batches laid end to end are the vectors
\* of the chunks in chunk order, so every chunk is in exactly one batch;
\* every batch but the last has 10 vectors, the last between 1 and 10, and
\* none is empty.
C21_Batching ==
  Returned("batches") =>
    LET n == Len(call.arg)
        submitted == call.ret
        laid_out == Flatten(submitted)
    IN  /\ Len(submitted) = (n + batch_size - 1) \div batch_size
        /\ Len(laid_out) = n
        /\ \A k \in 1..n :
             /\ laid_out[k].id = call.arg[k].metadata.vector_id
             /\ laid_out[k].data = call.arg[k].content
        /\ \A j, k \in 1..n : laid_out[j].id = laid_out[k].id => j = k
        /\ \A b \in 1..Len(submitted) :
             /\ Len(submitted[b]) \in 1..batch_size
             /\ b < Len(submitted) => Len(submitted[b]) = batch_size

\* a list of 20 chunks has gone out as two full batches, one of 11 as a full
\* batch and a batch of one
C21_Witness ==
  /\ Returned("batches")
  /\ \/ Len(call.arg) = 20 /\ Len(call.ret) = 2 /\ Len(call.ret[2]) = 10
     \/ Len(call.arg) = 11 /\ Len(call.ret) = 2 /\ Len(call.ret[2]) = 1

JsonRowsOf(pid) ==
  {i \in 1..Len(json_content) :
     json_content[i].professional_id = pid /\ json_content[i].version = "v1"}

\* the raw-document stage of the current run commits in this step
JsonContentCommits == pc = "json_content" /\ pc' = "create_chunks"

\* C22: json_content never has two rows for one (professional, 'v1'); after
\* a completed run the professional has exactly one, holding the run's
\* document and the hash of its sorted-key serialization, which is the same
\* for every order in which the document's keys can be held.  A committing
\* raw-document stage overwrites content and content_hash of the existing
\* row in place, or appends the row when there is none, and touches no other
\* row.
C22_OneJsonRowOverwritten ==
  /\ [](/\ \A pid \in {json_content[i].professional_id : i \in 1..Len(json_content)} :
             Cardinality(JsonRowsOf(pid)) = 1
        /\ RunCompleted =>
             /\ Cardinality(JsonRowsOf(professional_id)) = 1
             /\ \A i \in JsonRowsOf(professional_id) :
                  /\ json_content[i].content = json_data
                  /\ \A o \in dict_orders(json_data) :
                       json_content[i].content_hash = json_dumps(json_data, o, TRUE))
  /\ [][JsonContentCommits =>
          LET old == JsonRowsOf(professional_id)
          IN  /\ old # {} =>
                   /\ Len(json_content') = Len(json_content)
                   /\ \A i \in old :
                        /\ json_content'[i].id = json_content[i].id
                        /\ json_content'[i].content = json_data
                   /\ stats'.json_content_inserted = stats.json_content_inserted
              /\ old = {} =>
                   /\ Len(json_content') = Len(json_content) + 1
                   /\ json_content'[Len(json_content')].professional_id = professional_id
                   /\ stats'.json_content_inserted = stats.json_content_inserted + 1
              /\ \A i \in (1..Len(json_content)) \ old :
                   json_content'[i] = json_content[i]
       ]_vars

\* a second completed run has overwritten the row of the first with another
\* document of the same professional
C22_Witness ==
  /\ RunCompleted /\ runs = 2 /\ prev.exit_code = 0
  /\ prev.data = Doc1 /\ json_data = Doc2
  /\ Len(json_content) = 1
  /\ json_content[1].content = Doc2
  /\ json_content[1].content_hash = json_dumps(Doc2, <<"skills", "projects", "personalInfo", "experience">>, TRUE)
  /\ json_content[1].content_hash # json_dumps(Doc2, <<"skills", "projects", "personalInfo", "experience">>, FALSE)
  /\ stats.json_content_inserted = 0

\* what the claim says of the value run_concurrent_search_tests returns
IsolatedResults ==
  /\ call.ret.kind = "results"
  /\ \A q \in Queries :
       /\ call.ret.individual_results[q] \in {"success", "failure"}
       /\ call.ret.individual_results[q] = "success" <=> call.futures[q] = "returned"
  /\ Len(call.ret.errors) = Cardinality({q \in Queries : call.futures[q] = "raised"})
  /\ \A q \in Queries :
       call.futures[q] = "raised" <=> \E j \in 1..Len(call.ret.errors) : call.ret.errors[j] = q
  /\ call.ret.success_rate =
       <<Cardinality({q \in Queries : call.futures[q] = "returned"}), 5>>

\* C23: whatever the interleaving and the set of failing queries,
\* the value returned has one entry per query, marked success exactly for
\* the queries that returned, one error per failed query and success_rate
\* successes / 5.
C23_FailuresIsolated ==
  Returned("run_concurrent_search_tests") => IsolatedResults

\* both processes have exited
BothRunsDone == call.fn = "two_runs" /\ \A p \in Procs : ProcPc(p) = "done"

TwoRunsEmail == call.data.personalInfo.contact.email

\* what two runs of the document leave when one follows the other: one
\* professionals row, each section's rows once, a vector for every chunk row
SequentialOutcome ==
  /\ Len(professionals) = 1
  /\ Len(experiences) = Len(Get(call.data, "experience", <<>>))
  /\ Len(projects) = Len(Get(call.data, "projects", <<>>))
  /\ Len(education) = Len(Get(call.data, "education", <<>>))
  /\ Len(skills) = IF has_section(call.data, "skills")
                   THEN Len(all_skills(call.data.skills, 1)) ELSE 0
  /\ Len(json_content) = 1
  /\ \A r \in 1..Len(content_chunks) :
       content_chunks[r].vector_id \in DOMAIN vector_index

\* C24: two migration runs of one document that do not overlap leave the
\* sequential outcome, and only runs that overlapped leave anything else; the
\* witness is the final state two interleaved runs reach with two
\* professionals rows for the one email and chunk rows without a vector
C24_OnlyInterleavingBreaksIt ==
  (BothRunsDone /\ ~call.overlapped) => SequentialOutcome

C24_Witness ==
  /\ BothRunsDone
  /\ call.overlapped
  /\ Cardinality(ExistingProfessional(professionals, TwoRunsEmail)) = 2
  /\ \E r \in 1..Len(content_chunks) :
       content_chunks[r].vector_id \notin DOMAIN vector_index

ChunkTypes == {T_personal_info, T_experience, T_skills, T_project, T_education}

\* positions of the run's chunks whose batch the index has accepted
Upserted == {k \in 1..Len(chunks) : ChunksPersisted /\ k <= stats.vectors_embedded}

UpsertedIds(S) == {chunks[k].metadata.vector_id : k \in S}

\* C25: the record the index holds for an upserted chunk carries content_type
\* and chunk_type equal to the chunk's type, the chunk's importance, keywords
\* and date context and the run's timestamp, whatever the chunk's own
\* metadata holds; so among the run's vectors the filter content_type = T
\* admits exactly the chunks of type T and importance = 'high' exactly the
\* chunks of the high tier, and every record a content_type filter admits
\* belongs to a persisted chunk row of that type.
C25_FilterableMetadata ==
  /\ \A k \in Upserted :
       LET id == chunks[k].metadata.vector_id
           m  == vector_index[id].metadata
       IN  /\ m.content_type = chunks[k].chunk_type
           /\ m.chunk_type = chunks[k].chunk_type
           /\ m.importance = chunks[k].importance
           /\ m.keywords = chunks[k].keywords
           /\ m.date_context = chunks[k].date_context
           /\ m.created_at = runs
           /\ \A key \in DOMAIN chunks[k].metadata : m[key] = chunks[k].metadata[key]
  /\ \A T \in ChunkTypes :
       /\ metadata_filter(vector_index, "content_type", T) \cap UpsertedIds(Upserted)
            = UpsertedIds({k \in Upserted : chunks[k].chunk_type = T})
       /\ metadata_filter(vector_index, "content_type", T)
            = {id \in DOMAIN vector_index :
                 \E r \in 1..Len(content_chunks) :
                   content_chunks[r].vector_id = id /\ content_chunks[r].type = T}
  /\ metadata_filter(vector_index, "importance", "high") \cap UpsertedIds(Upserted)
       = UpsertedIds({k \in Upserted : chunks[k].importance = "high"})

C25_Witness ==
  /\ RunCompleted /\ file.data = Doc1 /\ Cardinality(Upserted) = 12
  /\ Cardinality(metadata_filter(vector_index, "content_type", T_experience)) = 4
  /\ Cardinality(metadata_filter(vector_index, "importance", "high")) = 7
  /\ Cardinality(metadata_filter(vector_index, "importance", "medium")) = 5

\* C26: after a completed run content_chunks holds one row per textual
\* chunk_id, and get_chunk_content for a chunk of the run returns the content
\* the run produced.
C26_OneRowPerChunkId ==
  RunCompleted =>
    /\ \A i, j \in 1..Len(content_chunks) :
         content_chunks[i].chunk_id = content_chunks[j].chunk_id => i = j
    /\ \A k \in 1..Len(chunks) :
         get_chunk_content(content_chunks,
                           text_param(textual_chunk_id(professional_id,
                                                       chunks[k].chunk_type, k - 1)))
           = {chunks[k].content}

\* C27: for every record of the index, the key each retrieval script derives
\* from it (run_single_test by stripping the prefix, run_single_test from the
\* metadata chunk_id, debug_rag from the metadata chunk_id) is the textual
\* chunk_id of the record's row, so the lookup finds that row's content.
C27_RetrievalKeysFindTheRow ==
  \A id \in DOMAIN vector_index :
    \E r \in 1..Len(content_chunks) :
      /\ content_chunks[r].vector_id = id
      /\ StartsWith(id, S_upstash)
      /\ content_chunks[r].content
           \in get_chunk_content(content_chunks,
                  text_param(retrieval_chunk_id(id, vector_index[id].metadata)))
      /\ content_chunks[r].content
           \in get_chunk_content(content_chunks, metadata_chunk_id(vector_index[id].metadata))
      /\ content_chunks[r].content
           \in get_chunk_content(content_chunks, debug_rag_chunk_id(vector_index[id].metadata))

\* C28: after a completed run the ids of the records in the index are exactly
\* the vector_ids of the run's chunks; no record of an earlier run remains.
C28_IndexIsTheRunsVectors ==
  RunCompleted =>
    DOMAIN vector_index = {chunks[k].metadata.vector_id : k \in 1..Len(chunks)}

\* C29: when a run has exited, with whatever status, the relational
\* connection it opened is closed.
C29_ConnectionClosedAtExit ==
  (pc = "idle" /\ exit_code # -1) => postgres_conn # "open"

\* the run's upsert attempts so far were all rejected
AllRejected == trace # <<>> /\ \A j \in 1..Len(trace) : ~trace[j].accepted

\* C30: a run that has started ends, completed (exit status 0) or aborted
\* (exit status 1), whichever upsert calls the vector service rejects; a run
\* whose every upsert call is rejected is aborted after exactly 3 attempts,
\* all on the first batch; and within a run no stage is executed twice: every
\* step leaves its stage for a later one, except an upsert attempt, which is
\* followed by the next attempt on the same batch or by a later batch.
C30_RunTerminatesOnce ==
  /\ (pc # "idle") ~> (pc = "idle" /\ exit_code \in {0, 1})
  /\ []((pc = "idle" /\ runs > 0) => exit_code \in {0, 1})
  /\ [](AllRejected =>
          /\ Len(trace) <= 3
          /\ \A j \in 1..Len(trace) : trace[j].batch = 1 /\ trace[j].attempt = j - 1
          /\ pc = "idle" <=> Len(trace) = 3
          /\ pc = "idle" => exit_code = 1)
  /\ [][/\ (pc # "idle" /\ pc # "upsert") =>
            /\ pc' # pc
            /\ pc' # "idle" => StagePos(pc') > StagePos(pc)
        /\ (pc = "upsert" /\ pc' # "idle") =>
            /\ pc' = "upsert"
            /\ \/ batch_no' > batch_no
               \/ batch_no' = batch_no /\ attempt' = attempt + 1
                                       /\ attempt' < max_retries
       ]_vars

\* the vector service rejected the three attempts on the first batch of the
\* twelve-chunk document and the run is aborted
C30_Witness ==
  /\ pc = "idle" /\ exit_code = 1 /\ fault = "upsert"
  /\ file.data = Doc1 /\ Len(chunks) = 12
  /\ AllRejected /\ Len(trace) = 3

=============================================================================
